---------------------------- MODULE Spec2Model ----------------------------
(***************************************************************************)
(* duckdb_protobuf: the protobuf-to-columnar projector, the length-framed  *)
(* record reader and the bind/init/produce driver, as state machines.      *)
(*                                                                         *)
(*   SpecParse  - gen.rs: parse_message over wire bytes, row after row of  *)
(*                one chunk                                                *)
(*   SpecWrite  - read.rs: write_to_output over decoded messages, row      *)
(*                after row of one chunk                                   *)
(*   SpecDriver - vtab.rs / io.rs: workers popping files from the shared   *)
(*                queue and filling chunks from framed records             *)
(*   SpecVarint - varint.rs: decode_varint over byte slices                *)
(*   SpecBind   - types.rs / vtab.rs: bind over message schemas            *)
(*   SpecWire   - gen.rs: parse_message over malformed records             *)
(*   SpecProject - vtab.rs: the filename, position and size columns under  *)
(*                a projection                                             *)
(*   SpecFilter - filtered_dynamic_message.rs: decoding a record with and  *)
(*                without the filter of the projected fields               *)
(*   SpecWriter - src/src/read.rs: ProtobufMessageWriter over records      *)
(*   SpecLayout - types.rs / read.rs: the declared type of a column and    *)
(*                the vectors write_to_output fills                        *)
(*   SpecHandle - vtab.rs, src/src/vtab.rs: the handles of bind, init and  *)
(*                local_init from allocation to free                       *)
(*                                                                         *)
(* Numbers read from the wire are kept as little-endian sequences of       *)
(* base-128 digits without trailing zeros (a u64 does not fit the model    *)
(* checker's integers); strings are sequences of bytes.                    *)
(***************************************************************************)
EXTENDS Integers, Sequences, FiniteSets, TLC

VARIABLES
    root,       \* SpecParse/SpecWrite: name of the root message descriptor
    pending,    \* SpecParse: field occurrences of the record being encoded
    out,        \* the chunk being filled and its column-offset ledger
    rows,       \* the inputs decoded into rows 0..Len(rows)-1 of the chunk
    params,     \* SpecDriver: bind and init data, fixed for the query
    queue,      \* SpecDriver: GlobalState.queue, the paths not yet popped
    current,    \* SpecDriver: per worker, LocalState.current
    call,       \* SpecDriver: per worker, the produce call in progress
    chunks,     \* SpecDriver: per worker, the chunks returned so far
    popped      \* SpecDriver: per path, the workers that popped it

driver == <<params, queue, current, call, chunks, popped>>

vars == <<root, pending, out, rows, driver>>

(***************************************************************************)
(* Finite maps                                                             *)
(***************************************************************************)
Get(f, k, d) == IF k \in DOMAIN f THEN f[k] ELSE d

Put(f, k, v) == [x \in (DOMAIN f) \cup {k} |-> IF x = k THEN v ELSE f[x]]

Put2(f, k, r, v) == Put(f, k, Put(Get(f, k, <<>>), r, v))

RECURSIVE Flatten(_)
Flatten(ss) == IF ss = <<>> THEN <<>> ELSE Head(ss) \o Flatten(Tail(ss))

RECURSIVE SumSeq(_)
SumSeq(s) == IF s = <<>> THEN 0 ELSE Head(s) + SumSeq(Tail(s))

(***************************************************************************)
(* Wide numbers: little-endian base-128 digits, no trailing zero           *)
(***************************************************************************)
RECURSIVE Norm(_)
Norm(d) ==
    IF d = <<>> THEN <<>>
    ELSE IF d[Len(d)] = 0 THEN Norm(SubSeq(d, 1, Len(d) - 1))
    ELSE d

\* the digits of a small natural number
RECURSIVE Num(_)
Num(n) == IF n = 0 THEN <<>> ELSE <<n % 128>> \o Num(n \div 128)

\* a number below 2^21 can be used as a model integer
IsSmall(d) == Len(d) <= 3

RECURSIVE ToNat(_)
ToNat(d) == IF d = <<>> THEN 0 ELSE Head(d) + 128 * ToNat(Tail(d))

(***************************************************************************)
(* varint.rs                                                               *)
(***************************************************************************)
MAX_VARINT_ENCODED_LEN == 10
MAX_VARINT32_ENCODED_LEN == 5

\* DecodeVarint::MAX_ENCODED_LEN, for D = 32 (u32) and D = 64 (u64)
MAX_ENCODED_LEN(D) ==
    IF D = 32 THEN MAX_VARINT32_ENCODED_LEN ELSE MAX_VARINT_ENCODED_LEN

\* LAST_BYTE_MAX_VALUE with any byte without the continuation bit let through
LAST_BYTE_MAX_VALUE_any(D) == 127

\* DecodeVarint::LAST_BYTE_MAX_VALUE
LAST_BYTE_MAX_VALUE(D) == IF D = 32 THEN 15 ELSE 1

\* DecodeVarint::from_u64: `value as u32` keeps the low 32 bits, which are
\* the digits 0..3 and the low four bits of digit 4
from_u64(D, d) ==
    IF D = 64 \/ Len(d) < 5 THEN Norm(d)
    ELSE Norm(SubSeq(d, 1, 4) \o <<d[5] % 16>>)

VarintNone == [kind |-> "none", value |-> <<>>, consumed |-> 0]
VarintErr == [kind |-> "err", value |-> <<>>, consumed |-> 0]
VarintOk(v, n) == [kind |-> "ok", value |-> v, consumed |-> n]

\* the loop of decode_varint_full: i is the index of the next byte, r the
\* digits accumulated so far
RECURSIVE decode_varint_loop(_, _, _, _)
decode_varint_loop(D, rem, i, r) ==
    IF i >= Len(rem) THEN VarintNone
    ELSE LET b == rem[i + 1] IN
         IF i = MAX_ENCODED_LEN(D) - 1
         THEN IF b > LAST_BYTE_MAX_VALUE(D) THEN VarintErr
              ELSE VarintOk(from_u64(D, Append(r, b)), i + 1)
         ELSE IF b < 128
              THEN VarintOk(from_u64(D, Append(r, b % 128)), i + 1)
              ELSE decode_varint_loop(D, rem, i + 1, Append(r, b % 128))

decode_varint_full(D, rem) == decode_varint_loop(D, rem, 0, <<>>)

\* decode_varint with the two-byte path taking buf[0] without `& 0x7f`
decode_varint_unmasked(D, buf) ==
    IF Len(buf) >= 1 /\ buf[1] < 128
    THEN VarintOk(from_u64(D, <<buf[1]>>), 1)
    ELSE IF Len(buf) >= 2 /\ buf[2] < 128
    THEN VarintOk(from_u64(D, <<buf[1], buf[2]>>), 2)
    ELSE decode_varint_full(D, buf)

decode_varint(D, buf) ==
    IF Len(buf) >= 1 /\ buf[1] < 128
    THEN VarintOk(from_u64(D, <<buf[1]>>), 1)
    ELSE IF Len(buf) >= 2 /\ buf[2] < 128
    THEN VarintOk(from_u64(D, <<buf[1] % 128, buf[2]>>), 2)
    ELSE decode_varint_full(D, buf)


(***************************************************************************)
(* Descriptors (prost_reflect): per message, its fields in declared order  *)
(***************************************************************************)
Fld(n, c, k, t) == [number |-> n, cardinality |-> c, kind |-> k, type |-> t]

\* Tags, A/B and User are the schemas of the scenarios S3, S4 and S1/S5;
\* Doc has a singular and a repeated scalar side by side; Timestamp stands
\* for google.protobuf.Timestamp; Rec has a singular field of each wire type;
\* Event has a Timestamp next to a scalar and a message of its own
Pool ==
    [Tags |-> <<Fld(1, "repeated", "string", "")>>,
     A    |-> <<Fld(1, "repeated", "message", "B")>>,
     B    |-> <<Fld(1, "repeated", "int32", "")>>,
     User |-> <<Fld(1, "optional", "string", ""),
                Fld(2, "optional", "int32", "")>>,
     Doc  |-> <<Fld(2, "optional", "int32", ""),
                Fld(3, "repeated", "int32", "")>>,
     Timestamp |-> <<Fld(1, "optional", "int64", ""),
                     Fld(2, "optional", "int32", "")>>,
     Rec  |-> <<Fld(1, "optional", "string", ""),
                Fld(2, "optional", "int32", ""),
                Fld(3, "optional", "double", ""),
                Fld(4, "optional", "float", ""),
                Fld(5, "optional", "message", "B")>>,
     Event |-> <<Fld(1, "optional", "message", "Timestamp"),
                 Fld(2, "optional", "int32", ""),
                 Fld(3, "optional", "message", "B")>>]

\* EnumDescriptor: the names of its values by number, and its default value
Enums == [Color |-> [names |-> <<<<82>>, <<71>>>>, default |-> <<82>>]]

\* MessageDescriptor::get_field, as the index of the field in fields(), or 0
get_field(desc, n) ==
    LET hit == {i \in 1..Len(Pool[desc]) : Pool[desc][i].number = n}
    IN IF hit = {} THEN 0 ELSE CHOOSE i \in hit : TRUE

(***************************************************************************)
(* gen.rs: ParseContext.  A context is the remaining bytes together with   *)
(* everything it writes to: ParserState.column_state (the ledger) and the  *)
(* vectors of the chunk, named by the column key of their field:           *)
(*   entries[key][row]  the list entries of a list vector                  *)
(*   list_size[key]     the size set on a list vector                      *)
(*   data[key][row]     the values of a leaf vector (for a repeated field  *)
(*                      the rows of the list's child vector)               *)
(* status is "ok", "err" (an Err result) or "panic" (a slice out of range) *)
(***************************************************************************)
Huge == 128 * 128 * 128

\* `len as usize` of a number read from the wire
AsLen(d) == IF IsSmall(d) THEN ToNat(d) ELSE Huge

EmptyOut ==
    [bytes |-> <<>>, column_state |-> <<>>, entries |-> <<>>,
     list_size |-> <<>>, data |-> <<>>, status |-> "ok"]

Fail(st, how) == [st EXCEPT !.status = how]

consume(st, n) ==
    IF n > Len(st.bytes) THEN Fail(st, "panic")
    ELSE [st EXCEPT !.bytes = SubSeq(st.bytes, n + 1, Len(st.bytes))]

read_varint(D, st) ==
    LET decoded(r) ==
            IF r.kind = "ok"
            THEN [st |-> consume(st, r.consumed), kind |-> "ok", value |-> r.value]
            ELSE [st |-> st, kind |-> r.kind, value |-> <<>>]
    IN decoded(decode_varint(D, st.bytes))

must_read_varint(D, st) ==
    LET required(r) ==
            IF r.kind = "ok" THEN r ELSE [r EXCEPT !.st = Fail(st, "err")]
    IN required(read_varint(D, st))

\* skip_wire_type with a length-delimited value skipped by its length prefix
\* alone
skip_wire_type_prefix_only(st, wire_type) ==
    LET varint(r) == IF r.kind = "err" THEN Fail(st, "err") ELSE r.st
    IN CASE wire_type = 0 -> varint(read_varint(64, st))
         [] wire_type = 1 -> consume(st, 8)
         [] wire_type = 5 -> consume(st, 4)
         [] wire_type = 2 -> must_read_varint(64, st).st
         [] OTHER -> Fail(st, "err")

skip_wire_type(st, wire_type) ==
    LET varint(r) == IF r.kind = "err" THEN Fail(st, "err") ELSE r.st
        delimited(r) ==
            IF r.st.status # "ok" THEN r.st ELSE consume(r.st, AsLen(r.value))
    IN CASE wire_type = 0 -> varint(read_varint(64, st))
         [] wire_type = 1 -> consume(st, 8)
         [] wire_type = 5 -> consume(st, 4)
         [] wire_type = 2 -> delimited(must_read_varint(64, st))
         [] OTHER -> Fail(st, "err")

\* tag & 0b111
WireTypeOf(tag) == IF tag = <<>> THEN 0 ELSE tag[1] % 8

\* tag >> 3
FieldNumberOf(tag) ==
    IF tag = <<>> THEN 0 ELSE (tag[1] \div 8) + 16 * ToNat(Tail(tag))

skip_tag(st, tag) ==
    IF WireTypeOf(tag) \in {6, 7} THEN Fail(st, "err")
    ELSE skip_wire_type(st, WireTypeOf(tag))

read_string(st, key, row) ==
    LET value(s, len) ==
            IF s.status # "ok" THEN s
            ELSE IF len > Len(s.bytes) THEN Fail(s, "panic")
            ELSE consume([s EXCEPT !.data =
                             Put2(@, key, row, SubSeq(s.bytes, 1, len))], len)
        prefixed(r) == value(r.st, AsLen(r.value))
    IN prefixed(must_read_varint(64, st))

read_fixed_bytes(N, st, key, row) ==
    IF N > Len(st.bytes) THEN Fail(st, "panic")
    ELSE consume([st EXCEPT !.data = Put2(@, key, row, SubSeq(st.bytes, 1, N))], N)

read_varint_value(D, st, key, row) ==
    LET value(r) ==
            IF r.st.status # "ok" THEN r.st
            ELSE [r.st EXCEPT !.data = Put2(@, key, row, r.value)]
    IN value(must_read_varint(D, st))

read_bool_value(st, key, row) ==
    LET value(r) ==
            IF r.st.status # "ok" THEN r.st
            ELSE [r.st EXCEPT !.data =
                     Put2(@, key, row, IF r.value # <<>> THEN <<1>> ELSE <<0>>)]
    IN value(must_read_varint(64, st))

\* the enum branch of parse_field: the name of the value, or of the default
read_enum_value(st, key, row, type) ==
    LET e == Enums[type]
        value(s, n) ==
            IF s.status # "ok" THEN s
            ELSE [s EXCEPT !.data =
                     Put2(@, key, row,
                          IF n + 1 \in DOMAIN e.names THEN e.names[n + 1]
                          ELSE e.default)]
        numbered(r) == value(r.st, AsLen(r.value))
    IN numbered(must_read_varint(32, st))

consume_local_fields(st, column_key, locals) ==
    LET keys == {Append(column_key, n) : n \in DOMAIN locals}
    IN [st EXCEPT !.column_state =
           [k \in (DOMAIN @) \cup keys |->
               IF k \in keys
               THEN locals[k[Len(k)]].offset + locals[k[Len(k)]].length
               ELSE @[k]]]

(***************************************************************************)
(* gen.rs: parse_message, parse_field, handle_repeated_field               *)
(***************************************************************************)
RECURSIVE parse_loop(_, _, _, _, _)
RECURSIVE parse_field(_, _, _, _)

parse_message(desc, st, row, column_key) ==
    parse_loop(desc, st, <<>>, row, column_key)

\* parse_field(..)? and, when it returns false, skip_tag(tag)?
parse_or_skip(st, row, column_key, field, tag) ==
    LET parsed(r) ==
            IF r.st.status = "ok" /\ ~r.handled THEN skip_tag(r.st, tag) ELSE r.st
    IN parsed(parse_field(st, row, column_key, field))

\* locals is LocalRepeatedFieldsState.state; the vacant branch reads the
\* ledger and leaves the map as it is
handle_repeated_field(st, locals, field_idx, row, column_key, field, tag) ==
    LET occupied == field_idx \in DOMAIN locals
        locals2 == IF occupied
                   THEN [locals EXCEPT ![field_idx].length = @ + 1]
                   ELSE locals
        element(offset, length) ==
            [st |-> parse_or_skip(
                        [st EXCEPT
                           !.entries = Put2(@, column_key, row, <<offset, length>>),
                           !.list_size = Put(@, column_key, offset + length)],
                        offset + length - 1, column_key, field, tag),
             locals |-> locals2]
    IN element(IF occupied THEN locals2[field_idx].offset
               ELSE Get(st.column_state, column_key, 0),
               IF occupied THEN locals2[field_idx].length ELSE 1)

parse_loop(desc, st, locals, row, column_key) ==
    LET repeated(h) == parse_loop(desc, h.st, h.locals, row, column_key)
        known(s, tag, field_number, field, key) ==
            IF field.cardinality \in {"optional", "required"}
            THEN parse_loop(desc, parse_or_skip(s, row, key, field, tag),
                            locals, row, column_key)
            ELSE repeated(handle_repeated_field(s, locals, field_number,
                                                row, key, field, tag))
        lookup(s, tag, field_number, field_idx) ==
            IF field_idx = 0
            THEN parse_loop(desc, skip_tag(s, tag), locals, row, column_key)
            ELSE known(s, tag, field_number, Pool[desc][field_idx],
                       Append(column_key, field_number))
        numbered(s, tag, field_number) ==
            lookup(s, tag, field_number, get_field(desc, field_number))
        tagged(t) ==
            IF t.kind = "err" THEN Fail(st, "err")
            ELSE IF t.kind = "none"
            THEN consume_local_fields(st, column_key, locals)
            ELSE numbered(t.st, t.value, FieldNumberOf(t.value))
    IN IF st.status # "ok" THEN st ELSE tagged(read_varint(32, st))

parse_field(st, row, column_key, field) ==
    LET done(s) == [st |-> s, handled |-> TRUE] IN
    CASE field.kind = "message" ->
            LET nested(s, len, sub) ==
                    IF sub.status # "ok" THEN sub
                    ELSE consume([sub EXCEPT !.bytes = s.bytes], len)
                message(s, len) ==
                    IF s.status # "ok" THEN s
                    ELSE IF len > Len(s.bytes) THEN Fail(s, "panic")
                    ELSE nested(s, len,
                                parse_message(field.type,
                                    [s EXCEPT !.bytes = SubSeq(@, 1, len)],
                                    row, column_key))
                prefixed(r) == message(r.st, AsLen(r.value))
            IN done(prefixed(must_read_varint(64, st)))
      [] field.kind = "enum" -> done(read_enum_value(st, column_key, row, field.type))
      [] field.kind = "string" -> done(read_string(st, column_key, row))
      [] field.kind = "double" -> done(read_fixed_bytes(8, st, column_key, row))
      [] field.kind = "float" -> done(read_fixed_bytes(4, st, column_key, row))
      [] field.kind \in {"int64", "uint64"} ->
            done(read_varint_value(64, st, column_key, row))
      [] field.kind \in {"int32", "uint32"} ->
            done(read_varint_value(32, st, column_key, row))
      [] field.kind = "bool" -> done(read_bool_value(st, column_key, row))
      [] OTHER -> [st |-> st, handled |-> FALSE]

(***************************************************************************)
(* Wire encoding of the records fed to the projector (a conformant         *)
(* encoder): a field occurrence is a tag followed by one encoded value     *)
(***************************************************************************)
RECURSIVE EncVarint(_)
EncVarint(n) ==
    IF n < 128 THEN <<n>> ELSE <<128 + (n % 128)>> \o EncVarint(n \div 128)

EncTag(number, wire) == EncVarint(number * 8 + wire)

EncLen(payload) == EncVarint(Len(payload)) \o payload

\* elems: the elements the occurrence adds to its field
Occ(number, wire, value, elems) ==
    [number |-> number, wire |-> wire, value |-> value, elems |-> elems,
     bytes |-> EncTag(number, wire) \o value]

StrOcc(number, str) == Occ(number, 2, EncLen(str), <<str>>)

IntOcc(number, n) == Occ(number, 0, EncVarint(n), <<Num(n)>>)

MsgOcc(number, payload) == Occ(number, 2, EncLen(payload), <<payload>>)

\* the packed encoding of a repeated scalar: one length-delimited value
PackedOcc(number, ns) ==
    Occ(number, 2, EncLen(Flatten([i \in 1..Len(ns) |-> EncVarint(ns[i])])),
        [i \in 1..Len(ns) |-> Num(ns[i])])

\* an occurrence of a field the descriptor does not have
SkipOcc(number, wire, value) == Occ(number, wire, value, <<>>)

RecordBytes(occs) == Flatten([i \in 1..Len(occs) |-> occs[i].bytes])

UnknownNumber == 99

\* the field occurrences a record of each root message is made of
Catalog ==
    [Tags |-> {StrOcc(1, <<97>>), StrOcc(1, <<98>>), StrOcc(1, <<99>>)},
     A    |-> {MsgOcc(1, IntOcc(1, 1).bytes \o IntOcc(1, 2).bytes),
               MsgOcc(1, IntOcc(1, 3).bytes),
               MsgOcc(1, PackedOcc(1, <<1, 2>>).bytes)},
     User |-> {StrOcc(1, <<65, 108>>), IntOcc(2, 1),
               SkipOcc(UnknownNumber, 0,
                       <<255, 255, 255, 255, 255, 255, 255, 255, 255, 1>>),
               SkipOcc(UnknownNumber, 1, <<1, 2, 3, 4, 5, 6, 7, 8>>),
               SkipOcc(UnknownNumber, 5, <<1, 2, 3, 4>>),
               SkipOcc(UnknownNumber, 2, EncLen(<<16, 9>>))},
     Doc  |-> {IntOcc(2, 7), IntOcc(3, 5), PackedOcc(3, <<16, 5>>)}]

Roots == {"Tags", "A", "User", "Doc"}

(***************************************************************************)
(* SpecParse: the records of one chunk are encoded occurrence by           *)
(* occurrence and decoded by parse_message into successive rows, all with  *)
(* the ParserState of the chunk                                            *)
(***************************************************************************)
\* field occurrences encoded over the whole chunk
MaxOccs == 4

\* rows of the chunk
Capacity == MaxOccs \div 2

OccsSoFar == Len(pending) + SumSeq([i \in 1..Len(rows) |-> Len(rows[i].occs)])

DriverIdle ==
    /\ params = <<>>
    /\ queue = <<>>
    /\ current = <<>>
    /\ call = <<>>
    /\ chunks = <<>>
    /\ popped = <<>>

InitParse ==
    /\ root \in Roots
    /\ pending = <<>>
    /\ out = EmptyOut
    /\ rows = <<>>
    /\ DriverIdle

\* the encoder appends one field occurrence to the record of the next row
Encode(o) ==
    /\ out.status = "ok"
    /\ Len(rows) < Capacity
    /\ OccsSoFar < MaxOccs
    /\ pending' = Append(pending, o)
    /\ UNCHANGED <<root, out, rows, driver>>

\* ParseContext::new(bytes, parser_state), then parse_message for the next row
ParseRow ==
    /\ out.status = "ok"
    /\ Len(rows) < Capacity
    /\ out' = parse_message(root, [out EXCEPT !.bytes = RecordBytes(pending)],
                            Len(rows), <<>>)
    /\ rows' = Append(rows, [occs |-> pending, pre |-> out])
    /\ pending' = <<>>
    /\ UNCHANGED <<root, driver>>

NextParse ==
    \/ \E o \in Catalog[root] : Encode(o)
    \/ ParseRow

SpecParse == InitParse /\ [][NextParse]_vars

(***************************************************************************)
(* Properties of parse_message (SpecParse)                                 *)
(***************************************************************************)
Parsed == rows # <<>> /\ pending = <<>> /\ out.status = "ok"

Last == rows[Len(rows)]

LastRow == Len(rows) - 1

\* what a decode leaves behind: the ledger and the vectors
Written(st) ==
    [column_state |-> st.column_state, entries |-> st.entries,
     list_size |-> st.list_size, data |-> st.data, status |-> st.status]

RepeatedFields(desc) ==
    {Pool[desc][i].number :
        i \in {j \in 1..Len(Pool[desc]) : Pool[desc][j].cardinality = "repeated"}}

KindOf(desc, n) == Pool[desc][get_field(desc, n)].kind

\* the wire type an encoder gives one element of a field of this kind
ElementWire(kind) ==
    IF kind \in {"message", "string"} THEN 2
    ELSE IF kind = "double" THEN 1
    ELSE IF kind = "float" THEN 5
    ELSE 0

OccsOf(occs, n) == SelectSeq(occs, LAMBDA o : o.number = n)

ElemsOf(occs, n) ==
    LET sel == OccsOf(occs, n) IN Flatten([i \in 1..Len(sel) |-> sel[i].elems])

\* every occurrence of field n carries one element in the field's own wire type
Unpacked(occs, n) ==
    \A i \in 1..Len(occs) :
        occs[i].number = n =>
            occs[i].wire = ElementWire(KindOf(root, n)) /\ Len(occs[i].elems) = 1

StartOf(st, key) == Get(st.column_state, key, 0)

EntryAt(st, key, row) == Get(Get(st.entries, key, <<>>), row, <<>>)

DataAt(st, key, row) == Get(Get(st.data, key, <<>>), row, <<"unwritten">>)

\* C2: a repeated field that occurs k >= 1 times in the record of row r has,
\* after parse_message, the list entry (start, k) with start the ledger value
\* at the start of the row, and child rows start..start+k-1 hold the k
\* elements in wire order
C2_RepeatedOccurrencesCollected ==
    Parsed =>
        \A n \in RepeatedFields(root) :
            LET elems == ElemsOf(Last.occs, n)
                k == Len(elems)
                start == StartOf(Last.pre, <<n>>)
            IN (k >= 1 /\ Unpacked(Last.occs, n)) =>
                  /\ EntryAt(out, <<n>>, LastRow) = <<start, k>>
                  /\ KindOf(root, n) # "message" =>
                        \A j \in 1..k : DataAt(out, <<n>>, start + j - 1) = elems[j]

\* S3: the record 0A 01 61 0A 01 62 0A 01 63 of Tags
S3_Record == <<StrOcc(1, <<97>>), StrOcc(1, <<98>>), StrOcc(1, <<99>>)>>

\* S4: an A record holding two B's with v = [1,2] and v = [3]
S4_Record ==
    <<MsgOcc(1, IntOcc(1, 1).bytes \o IntOcc(1, 2).bytes),
      MsgOcc(1, IntOcc(1, 3).bytes)>>

\* C3: after parse_message the ledger entry of every repeated field seen in
\* the row is start + the number of elements appended in the row, so that
\* list offsets are contiguous over the rows of the chunk at every nesting
\* level; for two S4 records: A.items (0,2),(2,2), B.v (0,2),(2,1),(3,2),(5,1)
\* and the B.v ledger at 6
C3_LedgerPublishedAtRowEnd ==
    Parsed =>
        /\ \A n \in RepeatedFields(root) :
               LET k == Len(ElemsOf(Last.occs, n))
               IN (k >= 1 /\ Unpacked(Last.occs, n)) =>
                     StartOf(out, <<n>>) = StartOf(Last.pre, <<n>>) + k
        /\ (root = "A" /\ Len(rows) = 2
                /\ \A i \in 1..2 : rows[i].occs = S4_Record) =>
               /\ EntryAt(out, <<1>>, 0) = <<0, 2>>
               /\ EntryAt(out, <<1>>, 1) = <<2, 2>>
               /\ EntryAt(out, <<1, 1>>, 0) = <<0, 2>>
               /\ EntryAt(out, <<1, 1>>, 1) = <<2, 1>>
               /\ EntryAt(out, <<1, 1>>, 2) = <<3, 2>>
               /\ EntryAt(out, <<1, 1>>, 3) = <<5, 1>>
               /\ StartOf(out, <<1, 1>>) = 6

\* the reorderings of a record that keep the occurrences of each field in
\* their relative order
Reorderings(occs) ==
    LET n == Len(occs)
        perms == {p \in [1..n -> 1..n] :
                    /\ \A i, j \in 1..n : i # j => p[i] # p[j]
                    /\ \A i, j \in 1..n :
                          (i < j /\ occs[p[i]].number = occs[p[j]].number)
                              => p[i] < p[j]}
    IN {[i \in 1..n |-> occs[p[i]]] : p \in perms}

DecodeRow(occs, pre, row) ==
    parse_message(root, [pre EXCEPT !.bytes = RecordBytes(occs)], row, <<>>)

\* C4: two encodings of one message that differ only in the order of the
\* field occurrences decode to the same column values, list entries and
\* child-vector contents, from the same ledger
C4_FieldOrderIrrelevant ==
    (rows # <<>> /\ pending = <<>>) =>
        \A other \in Reorderings(Last.occs) :
            Written(DecodeRow(other, Last.pre, LastRow)) = Written(out)

\* the context once the tag of occurrence i of the record has been read
AtValue(occs, pre, i) ==
    [pre EXCEPT !.bytes =
        occs[i].value \o RecordBytes(SubSeq(occs, i + 1, Len(occs)))]

TagOf(o) == Num(o.number * 8 + o.wire)

Without(occs, i) == SubSeq(occs, 1, i - 1) \o SubSeq(occs, i + 1, Len(occs))

IsUnknown(o) == get_field(root, o.number) = 0

\* C9: a tag whose field number the descriptor does not have moves the
\* cursor past exactly one value of its wire type, writes no column and no
\* ledger entry, and the rest of the record decodes as it does without it
C9_UnknownFieldSkipped ==
    (rows # <<>> /\ pending = <<>>) =>
        \A i \in 1..Len(Last.occs) :
            IsUnknown(Last.occs[i]) =>
                LET ctx == AtValue(Last.occs, Last.pre, i)
                IN /\ skip_tag(ctx, TagOf(Last.occs[i]))
                        = [ctx EXCEPT !.bytes =
                              SubSeq(@, Len(Last.occs[i].value) + 1, Len(@))]
                   /\ Written(out)
                        = Written(DecodeRow(Without(Last.occs, i), Last.pre, LastRow))

\* S5: an unknown length-delimited field, then the known string field, which
\* is captured
C9_Witness ==
    /\ Parsed
    /\ root = "User"
    /\ \E i, j \in 1..Len(Last.occs) :
          /\ i < j
          /\ IsUnknown(Last.occs[i]) /\ Last.occs[i].wire = 2
          /\ Last.occs[j].number = 1
    /\ DataAt(out, <<1>>, LastRow) = <<65, 108>>

IsPacked(o) ==
    /\ o.number \in RepeatedFields(root)
    /\ KindOf(root, o.number) \notin {"message", "string"}
    /\ o.wire = 2

\* C10: a repeated scalar that arrives as one length-delimited value of k
\* packed elements adds k elements to the row's list, and the cursor moves
\* past the length prefix and the packed payload
C10_PackedDecodedAsPacked ==
    (rows # <<>> /\ pending = <<>>) =>
        \A i \in 1..Len(Last.occs) :
            IsPacked(Last.occs[i]) =>
                LET n == Last.occs[i].number
                    elems == ElemsOf(Last.occs, n)
                    start == StartOf(Last.pre, <<n>>)
                    ctx == AtValue(Last.occs, Last.pre, i)
                    field == Pool[root][get_field(root, n)]
                IN /\ out.status = "ok"
                   /\ EntryAt(out, <<n>>, LastRow) = <<start, Len(elems)>>
                   /\ \A j \in 1..Len(elems) :
                         DataAt(out, <<n>>, start + j - 1) = elems[j]
                   /\ handle_repeated_field(ctx, <<>>, n, LastRow, <<n>>, field,
                                            TagOf(Last.occs[i])).st.bytes
                        = SubSeq(ctx.bytes, Len(Last.occs[i].value) + 1,
                                 Len(ctx.bytes))

SingularFields(desc) ==
    {Pool[desc][i].number :
        i \in {j \in 1..Len(Pool[desc]) : Pool[desc][j].cardinality # "repeated"}}

\* C15: a repeated field without an occurrence in the record of row r has,
\* after parse_message, the list entry (k, 0) with k the ledger value at the
\* start of the row, and the size of the list's child vector and the ledger
\* entry are what they were
C15_AbsentRepeatedIsEmptyList ==
    Parsed =>
        \A n \in RepeatedFields(root) :
            OccsOf(Last.occs, n) = <<>> =>
                /\ EntryAt(out, <<n>>, LastRow) = <<StartOf(Last.pre, <<n>>), 0>>
                /\ Get(out.list_size, <<n>>, 0) = Get(Last.pre.list_size, <<n>>, 0)
                /\ StartOf(out, <<n>>) = StartOf(Last.pre, <<n>>)

\* C16: after parse_message has decoded the record of row r, the column of
\* every singular scalar field of the message holds in row r a value of this
\* record - parse_message has no operation that marks a column null - also
\* for a field without an occurrence in the record
C16_SingularColumnsWritten ==
    Parsed =>
        \A n \in SingularFields(root) :
            KindOf(root, n) # "message" =>
                /\ DataAt(out, <<n>>, LastRow) # <<"unwritten">>
                /\ OccsOf(Last.occs, n) # <<>> =>
                       \E i \in 1..Len(Last.occs) :
                           /\ Last.occs[i].number = n
                           /\ <<DataAt(out, <<n>>, LastRow)>> = Last.occs[i].elems

(***************************************************************************)
(* SpecWire: records of Rec that a conformant encoder does not produce.    *)
(* A record is put together part by part - well-formed occurrences, tags   *)
(* with the wire types 3, 4, 6 and 7, known fields carried in another wire *)
(* type than their kind's, and, as its last part, an occurrence the bytes  *)
(* end inside of - and decoded by parse_message into row 0 of a chunk.     *)
(***************************************************************************)
\* parts of a record
MaxParts == 3

WireRoot == "Rec"

WellFormed == {StrOcc(1, <<97>>), IntOcc(2, 1)}

\* start group, end group, and the two values that are no wire type, on the
\* int32 field and on an unknown field; one byte follows the tag
BadWireTypes == {3, 4, 6, 7}

BadWire ==
    {Occ(2, w, <<1>>, <<>>) : w \in BadWireTypes}
        \cup {SkipOcc(UnknownNumber, w, <<1>>) : w \in BadWireTypes}

\* the int32 field as a length-delimited value, the string field as a varint
Mismatched == {Occ(2, 2, EncLen(<<7>>), <<>>), Occ(1, 0, <<1>>, <<>>)}

\* the first byte of a two-byte tag
CutTag ==
    [number |-> 0, wire |-> 0, value |-> <<>>, elems |-> <<>>, bytes |-> <<128>>]

\* occurrences the record ends inside of: a tag, a varint, a fixed64, a
\* fixed32, and length-delimited values that declare 5 bytes with 1 left,
\* of known fields and of an unknown one
Cut ==
    {CutTag,
     Occ(2, 0, <<128>>, <<>>), SkipOcc(UnknownNumber, 0, <<128>>),
     Occ(3, 1, <<1, 2, 3>>, <<>>), SkipOcc(UnknownNumber, 1, <<1, 2, 3>>),
     Occ(4, 5, <<1, 2>>, <<>>), SkipOcc(UnknownNumber, 5, <<1, 2>>),
     Occ(1, 2, <<5, 97>>, <<>>), Occ(5, 2, <<5, 8>>, <<>>),
     SkipOcc(UnknownNumber, 2, <<5, 1>>)}

\* the int32 field with the value -1, as encoders write it: sign-extended to
\* 64 bits, a varint of ten bytes; its low 32 bits are 2^32 - 1
Negative ==
    {Occ(2, 0, <<255, 255, 255, 255, 255, 255, 255, 255, 255, 1>>,
         <<<<127, 127, 127, 127, 15>>>>)}

Parts == WellFormed \cup BadWire \cup Mismatched \cup Cut \cup Negative

InitWire ==
    /\ root = WireRoot
    /\ pending = <<>>
    /\ out = EmptyOut
    /\ rows = <<>>
    /\ DriverIdle

\* one more part of the record; nothing follows a part the bytes end in
AddPart(o) ==
    /\ rows = <<>>
    /\ Len(pending) < MaxParts
    /\ pending # <<>> => pending[Len(pending)] \notin Cut
    /\ pending' = Append(pending, o)
    /\ UNCHANGED <<root, out, rows, driver>>

\* ParseContext::new(bytes, parser_state), then parse_message for row 0
ParseWire ==
    /\ rows = <<>>
    /\ out' = parse_message(root, [out EXCEPT !.bytes = RecordBytes(pending)],
                            0, <<>>)
    /\ rows' = <<[occs |-> pending, pre |-> out]>>
    /\ UNCHANGED <<root, pending, driver>>

NextWire ==
    \/ \E o \in Parts : AddPart(o)
    \/ ParseWire

SpecWire == InitWire /\ [][NextWire]_vars

(***************************************************************************)
(* Properties of parse_message on such records (SpecWire)                  *)
(***************************************************************************)
\* the parts before part i are well-formed occurrences
ReachedAsTag(occs, i) == \A j \in 1..(i - 1) : occs[j] \in WellFormed

\* C17: parse_message returns an error for a record with a tag whose wire
\* type is 3, 4, 6 or 7, on a known field as on an unknown one
C17_BadWireTypeIsError ==
    rows # <<>> =>
        \A i \in 1..Len(Last.occs) :
            (Last.occs[i] \in BadWire /\ ReachedAsTag(Last.occs, i)) =>
                out.status = "err"

\* C18: parse_message returns an error - not success, and no slice out of
\* range - for a record whose bytes end inside a tag, inside a varint,
\* fixed64 or fixed32 value, or inside a length-delimited value that
\* declares more bytes than are left
C18_CutRecordIsError ==
    rows # <<>> =>
        \A i \in 1..Len(Last.occs) :
            (Last.occs[i] \in Cut /\ ReachedAsTag(Last.occs, i)) =>
                out.status = "err"

\* C19: a known singular field that arrives in a wire type other than its
\* kind's is skipped: parse_message succeeds, the cursor passes one value
\* of the wire type on the wire, and the columns are what they are for the
\* record without the occurrence - the field's column is not written from
\* it and the fields after it decode as they do without it
C19_MismatchedFieldSkipped ==
    rows # <<>> =>
        \A i \in 1..Len(Last.occs) :
            (/\ Last.occs[i] \in Mismatched
             /\ \A j \in 1..Len(Last.occs) :
                   j # i => Last.occs[j] \in WellFormed) =>
                /\ out.status = "ok"
                /\ Written(out)
                     = Written(DecodeRow(Without(Last.occs, i), Last.pre, 0))

\* C21: an int32 field whose varint carries a 64-bit value - a negative
\* number, sign-extended to ten bytes - is decoded and narrowed to its low
\* 32 bits: parse_message succeeds and the column holds those 32 bits
C21_WideVarintNarrowed ==
    rows # <<>> =>
        \A i \in 1..Len(Last.occs) :
            (/\ Last.occs[i] \in Negative
             /\ \A j \in 1..Len(Last.occs) :
                   j # i => Last.occs[j] \in {StrOcc(1, <<97>>)}) =>
                /\ out.status = "ok"
                /\ <<DataAt(out, <<2>>, 0)>> = Last.occs[i].elems

(***************************************************************************)
(* read.rs: write_to_output over a decoded message (DynamicMessage).  A     *)
(* message value maps each field number to its value: a sequence for a     *)
(* repeated field, a message value for a message, else the scalar.  Column *)
(* keys carry the List element (written 0, which is no field number); the  *)
(* list vector of a repeated field is named by the key of the field, its   *)
(* child vector and its ledger entry by that key extended with List        *)
(***************************************************************************)
List == 0

Range(f) == {f[x] : x \in DOMAIN f}

\* lines 115-119 with the branch for a key already in the ledger left out
advance_ledger_first_only(column_state, column_key, new_next_offset) ==
    IF column_key \in DOMAIN column_state THEN column_state
    ELSE Put(column_state, column_key, new_next_offset)

\* `*it = new_next_offset` or `columns_state.insert(column_key, ..)`
advance_ledger(column_state, column_key, new_next_offset) ==
    Put(column_state, column_key, new_next_offset)

\* MyFlatVector::as_mut_slice()[row_idx] = value
write_slot(st, column_key, max_rows, row_idx, value) ==
    IF row_idx >= max_rows THEN Fail(st, "panic")
    ELSE [st EXCEPT !.data = Put2(@, column_key, row_idx, value)]

\* duckdb_vector_assign_string_element of CString::new(value)?
write_c_string(st, column_key, row_idx, value) ==
    IF 0 \in Range(value) THEN Fail(st, "err")
    ELSE [st EXCEPT !.data = Put2(@, column_key, row_idx, value)]

RECURSIVE write_single_column(_, _, _, _, _, _)

\* the loop of write_column over values.iter().enumerate(), from index idx
RECURSIVE write_elements(_, _, _, _, _, _, _)
write_elements(st, column_key, values, field, new_length, next_offset, idx) ==
    IF st.status # "ok" \/ idx >= Len(values) THEN st
    ELSE write_elements(
            write_single_column(st, column_key, values[idx + 1], field,
                                new_length, next_offset + idx),
            column_key, values, field, new_length, next_offset, idx + 1)

write_column(st, column_key, value, field, max_rows, row_idx) ==
    IF field.cardinality = "repeated"
    THEN LET list_key == Append(column_key, List)
             next_offset == Get(st.column_state, list_key, 0)
             new_next_offset == next_offset + Len(value)
         IN IF row_idx >= max_rows THEN Fail(st, "panic")
            ELSE write_elements(
                    [st EXCEPT
                       !.entries =
                           Put2(@, column_key, row_idx, <<next_offset, Len(value)>>),
                       !.column_state =
                           advance_ledger(@, list_key, new_next_offset),
                       !.list_size = Put(@, column_key, new_next_offset)],
                    list_key, value, field, new_next_offset, next_offset, 0)
    ELSE write_single_column(st, column_key, value, field, max_rows, row_idx)

\* the loop of write_message over descriptor().fields().enumerate()
RECURSIVE write_fields(_, _, _, _, _, _, _)
write_fields(st, column_key, value, desc, max_rows, row_idx, field_idx) ==
    IF st.status # "ok" \/ field_idx > Len(Pool[desc]) THEN st
    ELSE LET field == Pool[desc][field_idx]
         IN write_fields(
               write_column(st, Append(column_key, field.number),
                            value[field.number], field, max_rows, row_idx),
               column_key, value, desc, max_rows, row_idx, field_idx + 1)

write_message(st, column_key, value, desc, max_rows, row_idx) ==
    write_fields(st, column_key, value, desc, max_rows, row_idx, 1)

write_single_column(st, column_key, value, field, max_rows, row_idx) ==
    CASE field.kind = "message" /\ field.type = "Timestamp" ->
            write_slot(st, column_key, max_rows, row_idx,
                       value[1] * 1000000 + (value[2] \div 1000))
      [] field.kind = "message" /\ field.type # "Timestamp" ->
            write_message(st, column_key, value, field.type, max_rows, row_idx)
      [] field.kind = "enum" ->
            LET e == Enums[field.type]
            IN write_c_string(st, column_key, row_idx,
                  IF value + 1 \in DOMAIN e.names THEN e.names[value + 1]
                  ELSE e.default)
      [] field.kind = "string" -> write_c_string(st, column_key, row_idx, value)
      [] field.kind \in {"double", "float", "int32", "int64", "uint32",
                         "uint64", "bool"} ->
            write_slot(st, column_key, max_rows, row_idx, value)
      [] OTHER -> Fail(st, "err")

write_to_output(st, value, desc, max_rows, row_idx) ==
    write_message(st, <<>>, value, desc, max_rows, row_idx)

(***************************************************************************)
(* SpecWrite: the messages of one chunk are built item by item and written *)
(* by write_to_output into successive rows, all with the ledger of the     *)
(* chunk.  Every element gets a label of its own, so that a misplaced      *)
(* element shows.                                                          *)
(***************************************************************************)
\* rows of a chunk (the capacity the host gives it)
MaxRows == 3

\* list items and list elements built over the whole chunk
MaxNodes == 5

WriteRoots == {"A", "B"}

\* DynamicMessage::new(descriptor), for the messages of WriteRoots
DefaultMsg(desc) == [n \in {1} |-> <<>>]

\* the elements of all the lists of a message, and its list items
Nodes(desc, msg) ==
    IF desc = "B" THEN Len(msg[1])
    ELSE Len(msg[1]) + SumSeq([i \in 1..Len(msg[1]) |-> Len(msg[1][i][1])])

NodesSoFar ==
    Nodes(root, pending) + SumSeq([i \in 1..Len(rows) |-> Nodes(root, rows[i].msg)])

InitWrite ==
    /\ root \in WriteRoots
    /\ pending = DefaultMsg(root)
    /\ out = EmptyOut
    /\ rows = <<>>
    /\ DriverIdle

CanBuild ==
    /\ out.status = "ok"
    /\ Len(rows) < MaxRows
    /\ NodesSoFar < MaxNodes

\* a B is appended to A.items of the message of the next row
AddItem ==
    /\ CanBuild
    /\ root = "A"
    /\ pending' = [pending EXCEPT ![1] = Append(@, DefaultMsg("B"))]
    /\ UNCHANGED <<root, out, rows, driver>>

\* an element is appended to B.v: of the root, or of the last item of A.items
AddElement ==
    /\ CanBuild
    /\ \/ /\ root = "B"
          /\ pending' = [pending EXCEPT ![1] = Append(@, NodesSoFar + 1)]
       \/ /\ root = "A"
          /\ pending[1] # <<>>
          /\ pending' = [pending EXCEPT
                            ![1][Len(pending[1])][1] = Append(@, NodesSoFar + 1)]
    /\ UNCHANGED <<root, out, rows, driver>>

\* write_to_output of the message into the next row of the chunk
WriteRow ==
    /\ out.status = "ok"
    /\ Len(rows) < MaxRows
    /\ out' = write_to_output(out, pending, root, MaxRows, Len(rows))
    /\ rows' = Append(rows, [msg |-> pending, pre |-> out])
    /\ pending' = DefaultMsg(root)
    /\ UNCHANGED <<root, driver>>

NextWrite == AddItem \/ AddElement \/ WriteRow

SpecWrite == InitWrite /\ [][NextWrite]_vars

(***************************************************************************)
(* Properties of write_to_output (SpecWrite)                               *)
(***************************************************************************)
\* the list columns of the root, by the key of their list vector
ListColumns == IF root = "A" THEN {<<1>>, <<1, List, 1>>} ELSE {<<1>>}

\* the lists written into a list column, one per parent row, in row order:
\* the rows of the chunk for a top-level list, the rows of the enclosing
\* list's child vector for a nested one
ListsOf(key) ==
    LET top == [i \in 1..Len(rows) |-> rows[i].msg[1]]
    IN IF Len(key) = 1 THEN top
       ELSE LET items == Flatten(top) IN [i \in 1..Len(items) |-> items[i][1]]

\* C1: in every list column, at any depth, the list entries of successive
\* parent rows are contiguous from offset 0, each entry ends at the ledger
\* value right after its row, the child rows of an entry hold exactly the
\* elements of its parent row, and the size set on the child vector is the
\* ledger value and the sum of the entry lengths
C1_ListEntriesMatchLedger ==
    (pending = DefaultMsg(root) /\ out.status = "ok") =>
        \A key \in ListColumns :
            LET lists == ListsOf(key)
                ledger == StartOf(out, Append(key, List))
                entry(p) == EntryAt(out, key, p - 1)
            IN /\ \A p \in 1..Len(lists) :
                     /\ entry(p) # <<>>
                     /\ entry(p)[1] = (IF p = 1 THEN 0
                                       ELSE entry(p - 1)[1] + entry(p - 1)[2])
                     /\ entry(p)[2] = Len(lists[p])
                     /\ KindOf(IF Len(key) = 1 THEN root ELSE "B", 1) # "message" =>
                           \A j \in 1..Len(lists[p]) :
                               DataAt(out, Append(key, List), entry(p)[1] + j - 1)
                                   = lists[p][j]
               /\ Len(lists) > 0 =>
                     entry(Len(lists))[1] + entry(Len(lists))[2] = ledger
               /\ ledger = SumSeq([p \in 1..Len(lists) |-> Len(lists[p])])
               /\ Get(out.list_size, key, 0) = ledger

\* two rows written, the second with lists at offsets past 0 at both depths
C1_Witness ==
    /\ root = "A"
    /\ out.status = "ok"
    /\ pending = DefaultMsg(root)
    /\ Len(rows) = 2
    /\ EntryAt(out, <<1>>, 1) = <<1, 1>>
    /\ EntryAt(out, <<1, List, 1>>, 1) = <<1, 2>>
    /\ DataAt(out, <<1, List, 1, List>>, 2) = 5

(***************************************************************************)
(* io.rs: LengthDelimitedRecordsReader.  A reader is the path of its file   *)
(* and the position of its stream; `rest` is the file from that position   *)
(***************************************************************************)
\* ReadBytesExt::read_u32::<BigEndian>: read_exact of four bytes
read_u32_be(rest) ==
    IF Len(rest) < 4 THEN [kind |-> "eof", value |-> 0, consumed |-> 0]
    ELSE [kind |-> "ok", consumed |-> 4,
          value |-> ((rest[1] * 256 + rest[2]) * 256 + rest[3]) * 256 + rest[4]]

\* CodedInputStream::read_raw_varint32 with its error converted to an
\* io::Error; eof_kind is the io::ErrorKind the library gives to a stream
\* that ends before the varint does
read_raw_varint32(rest, eof_kind) ==
    LET converted(r) ==
            CASE r.kind = "ok" ->
                    [kind |-> "ok", consumed |-> r.consumed,
                     value |-> AsLen(from_u64(32, r.value))]
              [] r.kind = "none" ->
                    [kind |-> IF eof_kind = "UnexpectedEof" THEN "eof" ELSE "err",
                     value |-> 0, consumed |-> 0]
              [] OTHER -> [kind |-> "err", value |-> 0, consumed |-> 0]
    IN converted(decode_varint_full(64, rest))

\* the length prefix, then read_exact of a buffer of that length
get_next(length_kind, rest, eof_kind) ==
    LET framed(len) ==
            IF len.kind # "ok"
            THEN [kind |-> len.kind, bytes |-> <<>>, consumed |-> 0]
            ELSE IF len.value > Len(rest) - len.consumed
            THEN [kind |-> "eof", bytes |-> <<>>, consumed |-> 0]
            ELSE [kind |-> "ok", consumed |-> len.consumed + len.value,
                  bytes |-> SubSeq(rest, len.consumed + 1,
                                   len.consumed + len.value)]
    IN framed(IF length_kind = "BigEndianFixed" THEN read_u32_be(rest)
              ELSE read_raw_varint32(rest, eof_kind))

\* Err(err) if err.kind() == UnexpectedEof => Ok(None)
try_get_next(length_kind, rest, eof_kind) ==
    LET caught(r) == IF r.kind = "eof" THEN [r EXCEPT !.kind = "none"] ELSE r
    IN caught(get_next(length_kind, rest, eof_kind))

(***************************************************************************)
(* The files the glob matches.  Each holds records of B { repeated int32   *)
(* v = 1; }, framed one after another, and may end in a cut frame: a       *)
(* length prefix that declares 9 bytes with 2 left in the file, or half a  *)
(* length prefix.  Under SingleMessagePerFile a file is one message, and   *)
(* a cut payload is a message that ends inside a length-delimited value.   *)
(***************************************************************************)
MaxFiles == 4

MaxWorkers == 2

Files == 1..MaxFiles

Workers == 1..MaxWorkers

LengthKinds == {"BigEndianFixed", "Varint", "SingleMessagePerFile"}

FileTable ==
    <<[frames |-> <<<<8, 7>>>>, cut |-> "prefix"],
      [frames |-> <<>>, cut |-> "none"],
      [frames |-> <<<<8, 1>>, <<8, 2, 8, 3>>, <<>>>>, cut |-> "none"],
      [frames |-> <<<<8, 8>>>>, cut |-> "payload"]>>

FileOf(f) == FileTable[((f - 1) % Len(FileTable)) + 1]

Frame(length_kind, payload) ==
    (IF length_kind = "BigEndianFixed" THEN <<0, 0, 0, Len(payload)>>
     ELSE EncVarint(Len(payload))) \o payload

CutFrame(length_kind, cut) ==
    CASE cut = "payload" ->
            (CASE length_kind = "BigEndianFixed" -> <<0, 0, 0, 9>>
               [] length_kind = "Varint" -> <<9>>
               [] OTHER -> <<>>)
                \o <<10, 5>>
      [] cut = "prefix" ->
            (CASE length_kind = "BigEndianFixed" -> <<0, 0>>
               [] length_kind = "Varint" -> <<128>>
               [] OTHER -> <<>>)
      [] OTHER -> <<>>

\* the complete frames of a file
Framed(length_kind, f, k) ==
    Flatten([i \in 1..k |-> Frame(length_kind, FileOf(f).frames[i])])

FileBytes(length_kind, f) ==
    (IF length_kind = "SingleMessagePerFile" THEN Flatten(FileOf(f).frames)
     ELSE Framed(length_kind, f, Len(FileOf(f).frames)))
        \o CutFrame(length_kind, FileOf(f).cut)

(***************************************************************************)
(* vtab.rs: GlobalState, LocalState, next_message and func.  A produce     *)
(* call is taken one loop iteration at a time, so that the calls of the    *)
(* workers interleave at every access to the shared queue.                 *)
(***************************************************************************)
\* the capacity of the chunk the host hands to func
ChunkRows == MaxRows - 1

DriverRoot == "B"

\* LocalState.current = None
NoReader == [path |-> 0, pos |-> 0]

Rest(reader) ==
    SubSeq(FileBytes(params.length_kind, reader.path), reader.pos + 1,
           Len(FileBytes(params.length_kind, reader.path)))

\* DynamicMessage::merge of the bytes of a B: occurrences of v, unpacked
RECURSIVE merge(_, _)
merge(message, bytes) ==
    IF bytes = <<>> THEN [kind |-> "ok", message |-> message]
    ELSE IF Len(bytes) >= 2 /\ bytes[1] = 8 /\ bytes[2] < 128
    THEN merge([message EXCEPT ![1] = Append(@, bytes[2])],
               SubSeq(bytes, 3, Len(bytes)))
    ELSE [kind |-> "err", message |-> message]

\* the ledger of the call before handed on to the next call of the worker
column_information_kept(previous) ==
    [EmptyOut EXCEPT !.column_state = previous.column_state]

\* `let mut column_information = Default::default()` at the start of func:
\* the vectors of the new chunk with an empty ledger, whatever the ledger of
\* the call before held
column_information(previous) == EmptyOut

\* the start of a call of func: no rows, an empty ledger
NewCall == [status |-> "running", items |-> <<>>, out |-> EmptyOut]

\* the call of func that follows a call that has returned
NextCall(c) == [NewCall EXCEPT !.out = column_information(c.out)]

\* what the glob can match: some of the files, at least one (GlobalState::new
\* fails on none), in the order of their names
Globs ==
    {CHOOSE q \in [1..Cardinality(S) -> S] :
         \A i, j \in 1..Cardinality(S) : i < j => q[i] < q[j] :
       S \in (SUBSET Files) \ {{}}}

\* the result columns bind declares: the fields of the message (named here
\* by their numbers), then the synthetic columns that are switched on
bind_columns(p) ==
    [i \in 1..Len(Pool[DriverRoot]) |-> <<"field", Pool[DriverRoot][i].number>>]
        \o (IF p.include_filename THEN <<<<"filename", 0>>>> ELSE <<>>)
        \o (IF p.include_position THEN <<<<"position", 0>>>> ELSE <<>>)
        \o (IF p.include_size THEN <<<<"size", 0>>>> ELSE <<>>)

\* init_info.get_column_indices() of a query that selects every column
Projected(columns) == [i \in 1..Len(columns) |-> i - 1]

Projections == {Projected([i \in 1..n |-> i]) : n \in 1..(Len(Pool[DriverRoot]) + 3)}

\* GlobalState::new and local_init: the queue holds the paths in glob order
InitDriver ==
    /\ root = DriverRoot
    /\ pending = <<>>
    /\ out = EmptyOut
    /\ rows = <<>>
    /\ params \in {p \in [length_kind : LengthKinds,
                          eof_kind : {"UnexpectedEof", "InvalidData"},
                          files : Globs, max_threads : 1..MaxFiles,
                          include_filename : BOOLEAN,
                          include_position : BOOLEAN,
                          include_size : BOOLEAN,
                          column_indices : Projections] :
                      /\ p.length_kind # "Varint" => p.eof_kind = "UnexpectedEof"
                      /\ p.max_threads = Len(p.files)
                      /\ p.column_indices = Projected(bind_columns(p))}
    /\ queue = params.files
    /\ current = [w \in Workers |-> NoReader]
    /\ call = [w \in Workers |-> NewCall]
    /\ chunks = [w \in Workers |-> <<>>]
    /\ popped = [f \in Files |-> <<>>]

\* ArrayQueue::pop, which leaves the path at the head of the queue
queue_peek(q) == [item |-> Head(q), rest |-> q]

\* ArrayQueue::pop
queue_pop(q) == [item |-> Head(q), rest |-> Tail(q)]

\* the reader is dropped in place of `self.local_state.current = Some(value)`
keep_dropped(reader) == NoReader

\* self.local_state.current = Some(value)
keep(reader) == reader

\* the workers the host runs: init sets max_threads to the length of the queue
Threads == {w \in Workers : w <= params.max_threads}

\* the Record the reader returns for the frame it read: the offset of the
\* frame's length prefix in the file, the length of the payload, the payload
Record(reader, r) ==
    [position |-> reader.pos, size |-> Len(r.bytes), bytes |-> r.bytes]

\* next_message of worker w: the queue, the pop record and the worker's
\* reader after the call, and the result
next_message(w) ==
    LET none(q, p) ==
            [queue |-> q, popped |-> p, current |-> NoReader,
             result |-> [kind |-> "none"]]
        got(q, p, reader, r) ==
            CASE r.kind = "err" ->
                    [queue |-> q, popped |-> p, current |-> NoReader,
                     result |-> [kind |-> "err"]]
              [] r.kind = "none" -> none(q, p)
              [] OTHER ->
                    [queue |-> q, popped |-> p,
                     current |-> keep([reader EXCEPT !.pos = @ + r.consumed]),
                     result |-> [kind |-> "some", path |-> reader.path,
                                 bytes |-> Record(reader, r).bytes,
                                 size |-> Record(reader, r).size,
                                 position |-> Record(reader, r).position]]
        read(q, p, reader) ==
            got(q, p, reader,
                try_get_next(params.length_kind, Rest(reader), params.eof_kind))
        whole(q, p, path, bytes) ==
            [queue |-> q, popped |-> p, current |-> NoReader,
             result |-> [kind |-> "some", path |-> path, bytes |-> bytes,
                         size |-> Len(bytes), position |-> 0]]
        opened(q, p, path) ==
            IF params.length_kind = "SingleMessagePerFile"
            THEN whole(q, p, path, FileBytes(params.length_kind, path))
            ELSE read(q, p, [path |-> path, pos |-> 0])
        next(t) ==
            opened(t.rest, [popped EXCEPT ![t.item] = Append(@, w)], t.item)
    IN IF current[w] # NoReader THEN read(queue, popped, current[w])
       ELSE IF queue = <<>> THEN none(queue, popped)
       ELSE next(queue_pop(queue))

\* the output vector taken to be the bound column itself, whatever the query
\* selects
find_column_declared(column_indices, field_offset) == field_offset

\* column_indices.iter().enumerate().find(|(_, it)| it == field_offset): the
\* output vector of a bound column, -1 when the query does not select it
find_column(column_indices, field_offset) ==
    LET hits == {i \in DOMAIN column_indices :
                    column_indices[i] = field_offset}
    IN IF hits = {} THEN -1
       ELSE (CHOOSE i \in hits : \A j \in hits : i <= j) - 1

\* the synthetic columns with the position column given the size
synthetic_columns_size_twice(p, fields_len, v) ==
    LET at(offset) == find_column(p.column_indices, offset)
        put(cols, on, offset, value) ==
            IF on /\ at(offset) >= 0 THEN Put(cols, at(offset), value)
            ELSE cols
        after_filename == fields_len + (IF p.include_filename THEN 1 ELSE 0)
        after_position == after_filename + (IF p.include_position THEN 1 ELSE 0)
    IN put(put(put(<<>>, p.include_filename, fields_len, v.path),
               p.include_position, after_filename, v.size),
           p.include_size, after_position, v.size)

\* the synthetic columns of one row, by output vector: filename, position
\* and size, each at the bound column after the fields and the synthetic
\* columns switched on before it
synthetic_columns(p, fields_len, v) ==
    LET at(offset) == find_column(p.column_indices, offset)
        put(cols, on, offset, value) ==
            IF on /\ at(offset) >= 0 THEN Put(cols, at(offset), value)
            ELSE cols
        after_filename == fields_len + (IF p.include_filename THEN 1 ELSE 0)
        after_position == after_filename + (IF p.include_position THEN 1 ELSE 0)
    IN put(put(put(<<>>, p.include_filename, fields_len, v.path),
               p.include_position, after_filename, v.position),
           p.include_size, after_position, v.size)

\* the chunks of a worker after an error, were func to return the rows
\* decoded so far in the call
propagate_partial(w) ==
    [chunks EXCEPT ![w] = Append(@, [rows |-> call[w].items,
                                      out |-> call[w].out])]

\* the chunks of a worker after `?` has returned an error from func: the
\* return comes before output.set_len, no chunk is handed over
propagate(w) == chunks

\* one iteration of the loop of func: next_message, merge, write_to_output,
\* the synthetic columns; on None the loop breaks and the call returns the
\* chunk with set_len(items)
FuncStep(w) ==
    /\ call[w].status = "running"
    /\ Len(call[w].items) < ChunkRows
    /\ LET c == call[w]
           failed == [c EXCEPT !.status = "failed"]
           row(v) == [path |-> v.path, position |-> v.position,
                      size |-> v.size, bytes |-> v.bytes,
                      synthetic |-> synthetic_columns(
                                        params, Len(Pool[DriverRoot]), v)]
           written(v, o) ==
               IF o.status # "ok" THEN failed
               ELSE [c EXCEPT !.items = Append(@, row(v)), !.out = o]
           merged(v, m) ==
               IF m.kind # "ok" THEN failed
               ELSE written(v, write_to_output(c.out, m.message, DriverRoot,
                                               ChunkRows, Len(c.items)))
           stepped(n) ==
               /\ queue' = n.queue
               /\ popped' = n.popped
               /\ current' = [current EXCEPT ![w] = n.current]
               /\ CASE n.result.kind = "err" ->
                          /\ call' = [call EXCEPT ![w] = failed]
                          /\ chunks' = propagate(w)
                    [] n.result.kind = "none" ->
                          /\ chunks' = [chunks EXCEPT ![w] =
                                Append(@, [rows |-> c.items, out |-> c.out])]
                          /\ call' = [call EXCEPT ![w] =
                                IF c.items = <<>>
                                THEN [NextCall(c) EXCEPT !.status = "done"]
                                ELSE NextCall(c)]
                    [] OTHER ->
                          /\ call' = [call EXCEPT ![w] =
                                merged(n.result,
                                       merge(DefaultMsg(DriverRoot),
                                             n.result.bytes))]
                          /\ chunks' = IF call'[w].status = "failed"
                                       THEN propagate(w) ELSE chunks
       IN stepped(next_message(w))
    /\ UNCHANGED <<root, pending, out, rows, params>>

\* the loop of func ends at the capacity of the chunk: set_len(items)
FuncReturn(w) ==
    /\ call[w].status = "running"
    /\ Len(call[w].items) = ChunkRows
    /\ chunks' = [chunks EXCEPT ![w] =
                     Append(@, [rows |-> call[w].items, out |-> call[w].out])]
    /\ call' = [call EXCEPT ![w] = NextCall(call[w])]
    /\ UNCHANGED <<root, pending, out, rows, params, queue, current, popped>>

NextDriver == \E w \in Threads : FuncStep(w) \/ FuncReturn(w)

SpecDriver == InitDriver /\ [][NextDriver]_vars

(***************************************************************************)
(* Properties of the reader and the driver (SpecDriver)                    *)
(***************************************************************************)
LengthDelimited == params.length_kind # "SingleMessagePerFile"

\* the records a file holds, and the offset of record k in it
Records(f) ==
    IF LengthDelimited THEN FileOf(f).frames
    ELSE <<FileBytes(params.length_kind, f)>>

RecordOffset(f, k) ==
    IF LengthDelimited THEN Len(Framed(params.length_kind, f, k - 1)) ELSE 0

\* the reader stands behind the last complete frame of a file that goes on
\* with a cut frame
AtCutFrame(reader) ==
    /\ FileOf(reader.path).cut # "none"
    /\ reader.pos = Len(Framed(params.length_kind, reader.path,
                               Len(FileOf(reader.path).frames)))

\* C5: the reader reports end-of-stream only when the file ends before any
\* byte of a length prefix; a file that ends inside a length prefix or
\* inside the payload the prefix declares makes the next read an error
C5_CutFrameIsError ==
    \A w \in Workers :
        current[w] # NoReader =>
            LET r == try_get_next(params.length_kind, Rest(current[w]),
                                  params.eof_kind)
            IN /\ r.kind = "none" => Rest(current[w]) = <<>>
               /\ AtCutFrame(current[w]) => r.kind = "err"

\* C6: a chunk returned by func has at most ChunkRows rows, and fewer only
\* if at the return the queue is empty and the worker has no open file
C6_ShortChunkOnlyAtEndOfInput ==
    [][\A w \in Workers :
          Len(chunks'[w]) > Len(chunks[w]) =>
              LET chunk == chunks'[w][Len(chunks'[w])]
              IN /\ Len(chunk.rows) <= ChunkRows
                 /\ Len(chunk.rows) < ChunkRows =>
                        queue' = <<>> /\ current'[w] = NoReader]_vars

Count(q, f) == Cardinality({i \in DOMAIN q : q[i] = f})

\* the rows a worker has delivered in its chunks
Delivered(w) == Flatten([i \in 1..Len(chunks[w]) |-> chunks[w][i].rows])

AllDelivered ==
    Flatten([w \in Workers |-> Delivered(w)])

\* C7: whatever the interleaving, every path of the glob is either still in
\* the queue or was popped once, by one worker; with the queue empty a
\* worker without an open file gets end-of-input; and under
\* SingleMessagePerFile, once every worker is done, the rows delivered are
\* one per file, at position 0
C7_EachPathPoppedOnce ==
    /\ \A f \in Files :
          Len(popped[f]) + Count(queue, f) = Count(params.files, f)
    /\ queue = <<>> =>
          \A w \in Threads :
              current[w] = NoReader =>
                  /\ next_message(w).result.kind = "none"
                  /\ next_message(w).popped = popped
    /\ (~LengthDelimited /\ \A w \in Threads : call[w].status = "done") =>
          /\ Len(AllDelivered) = Len(params.files)
          /\ \A f \in Range(params.files) :
                \E i \in 1..Len(AllDelivered) :
                    /\ AllDelivered[i].path = f
                    /\ AllDelivered[i].position = 0
                    /\ AllDelivered[i].bytes = FileBytes(params.length_kind, f)

\* three files under SingleMessagePerFile, read by two workers that each
\* delivered rows, and both done
C7_Witness ==
    /\ ~LengthDelimited
    /\ Len(params.files) = 3
    /\ \A w \in Threads : call[w].status = "done"
    /\ Delivered(1) # <<>>
    /\ Delivered(2) # <<>>
    /\ Len(AllDelivered) = 3

\* the rows worker w has read: those delivered and those of the call underway
RowsOf(w) == Delivered(w) \o call[w].items

RowsFrom(w, f) == SelectSeq(RowsOf(w), LAMBDA r : r.path = f)

\* C8: the rows a worker has read from a file are the first records of the
\* file, in frame order, and form one run in the worker's rows, chunk
\* boundaries or not; and a worker that has gone on from a file it popped,
\* no call of it having failed, has read every record of it
C8_FileOrderKept ==
    \A w \in Workers :
        LET ordered(f, from, records) ==
                /\ Len(from) <= Len(records)
                /\ \A k \in 1..Len(from) :
                      /\ from[k].bytes = records[k]
                      /\ from[k].position = RecordOffset(f, k)
                /\ (/\ Count(popped[f], w) > 0
                    /\ current[w].path # f
                    /\ call[w].status # "failed") =>
                      Len(from) = Len(records)
            one_run(rs) ==
                \A i, j \in 1..Len(rs) :
                    (i < j /\ rs[i].path = rs[j].path) =>
                        \A k \in i..j : rs[k].path = rs[i].path
        IN /\ \A f \in Files : ordered(f, RowsFrom(w, f), Records(f))
           /\ one_run(RowsOf(w))

\* a worker's first chunk is full with the first records of a file that has
\* one record more, and its second chunk goes on with that record
C8_Witness ==
    \E w \in Workers : \E f \in Files :
        /\ LengthDelimited
        /\ Len(Records(f)) = ChunkRows + 1
        /\ Len(chunks[w]) >= 2
        /\ Len(chunks[w][1].rows) = ChunkRows
        /\ \A k \in 1..ChunkRows :
              /\ chunks[w][1].rows[k].path = f
              /\ chunks[w][1].rows[k].bytes = Records(f)[k]
        /\ chunks[w][2].rows # <<>>
        /\ chunks[w][2].rows[1].path = f
        /\ chunks[w][2].rows[1].bytes = Records(f)[ChunkRows + 1]

\* the output vector of the bound column of a name, -1 when it is not bound
VectorOf(name) ==
    LET bound == {i \in DOMAIN bind_columns(params) :
                     bind_columns(params)[i] = <<name, 0>>}
    IN IF bound = {} THEN -1
       ELSE find_column(params.column_indices, (CHOOSE i \in bound : TRUE) - 1)

Failing(w) ==
    /\ call[w].status = "running"
    /\ Len(call[w].items) < ChunkRows
    /\ LET raised(n) ==
               \/ n.result.kind = "err"
               \/ /\ n.result.kind = "some"
                  /\ merge(DefaultMsg(DriverRoot), n.result.bytes).kind = "err"
       IN raised(next_message(w))

\* C14: when the next record of a call cannot be read or decoded, the step
\* of the call ends the call with the error and hands no chunk to the host;
\* a failed call hands over nothing later either, so the rows decoded before
\* the error in the same call are in no chunk
C14_ErrorLeavesNoChunk ==
    [][\A w \in Workers :
          /\ (Failing(w) /\ call'[w] # call[w]) =>
                 /\ call'[w].status = "failed"
                 /\ call'[w].items = call[w].items
                 /\ chunks'[w] = chunks[w]
          /\ call[w].status = "failed" =>
                 /\ call'[w] = call[w]
                 /\ chunks'[w] = chunks[w]]_vars

\* a call has failed on a read error after it had decoded a row, and the
\* worker has handed over no chunk
C14_Witness ==
    \E w \in Workers :
        /\ LengthDelimited
        /\ call[w].status = "failed"
        /\ call[w].items # <<>>
        /\ chunks[w] = <<>>

\* the elements of v in the record of a delivered row
ElementsOf(r) == Len(r.bytes) \div 2

\* C23: every call of func starts with an empty ledger, and the list entry of
\* the first row of every chunk starts at offset 0 and covers the elements
\* of the row's record, whatever the chunks before it appended
C23_LedgerFreshPerCall ==
    \A w \in Workers :
        LET first(items, o) ==
                items # <<>> =>
                    EntryAt(o, <<1>>, 0) = <<0, ElementsOf(items[1])>>
        IN /\ call[w].items = <<>> => call[w].out.column_state = <<>>
           /\ first(call[w].items, call[w].out)
           /\ \A i \in 1..Len(chunks[w]) :
                  first(chunks[w][i].rows, chunks[w][i].out)

\* a worker has returned a chunk that appended elements and then a chunk
\* whose first row has elements
C23_Witness ==
    \E w \in Workers :
        /\ Len(chunks[w]) >= 2
        /\ StartOf(chunks[w][1].out, <<1, List>>) > 0
        /\ chunks[w][2].rows # <<>>
        /\ EntryAt(chunks[w][2].out, <<1>>, 0) = <<0, 3>>

\* init sets max_threads, the most workers the host runs; the host runs
\* worker 1, and any other worker or not.  These are the workers it has
\* called func on, or will
Started(w) ==
    /\ w \in Threads
    /\ \/ w = 1
       \/ call[w] # NewCall
       \/ chunks[w] # <<>>
       \/ current[w] # NoReader

\* the host has called func on every worker it runs until the call returned
\* a chunk of length 0, and no call has returned an error
HostDone == \A w \in Workers : Started(w) => call[w].status = "done"

\* every record of every file of the glob is a row of exactly one chunk
EveryRecordOnce ==
    LET once(delivered) ==
            \A i \in DOMAIN params.files :
                \A k \in 1..Len(Records(params.files[i])) :
                    Cardinality(
                        {j \in DOMAIN delivered :
                            /\ delivered[j].path = params.files[i]
                            /\ delivered[j].position
                                   = RecordOffset(params.files[i], k)}) = 1
    IN once(AllDelivered)

\* C26: a call of func returns a chunk of length 0 only when the queue is
\* empty and the worker has no open file - an empty file, or a file whose
\* last record was the last row of the chunk before, does not end the
\* worker - so that, func being called on each worker the host runs until
\* it returns a chunk of length 0, every record of every file of the glob
\* has become a row of exactly one chunk when the last of them returns
C26_EveryRecordEmitted ==
    [][\A w \in Workers :
          (/\ Len(chunks'[w]) > Len(chunks[w])
           /\ chunks'[w][Len(chunks'[w])].rows = <<>>) =>
              /\ queue' = <<>>
              /\ current'[w] = NoReader
              /\ HostDone' => EveryRecordOnce']_vars

(***************************************************************************)
(* SpecVarint: a byte slice is built byte by byte - continuation bytes,    *)
(* one byte without the continuation bit, one byte after it - and          *)
(* decode_varint is applied to it for u32 and for u64                      *)
(***************************************************************************)
\* bytes of the slice
MaxBytes == 11

ContinuationBytes == {128, 255}

FinalBytes == {0, 1, 15, 16, 127}

Widths == {32, 64}

\* the index of the first byte without the continuation bit, or 0
FirstFinal(buf) ==
    IF \A i \in 1..Len(buf) : buf[i] >= 128 THEN 0
    ELSE CHOOSE i \in 1..Len(buf) :
             buf[i] < 128 /\ \A j \in 1..(i - 1) : buf[j] >= 128

InitVarint ==
    /\ root = "varint"
    /\ pending = <<>>
    /\ out = EmptyOut
    /\ rows = <<>>
    /\ DriverIdle

\* one more byte of the slice
AppendByte(b) ==
    /\ Len(pending) < MaxBytes
    /\ \/ FirstFinal(pending) = 0
       \/ FirstFinal(pending) = Len(pending) /\ b \in {1, 128}
    /\ pending' = Append(pending, b)
    /\ rows' = <<>>
    /\ UNCHANGED <<root, out, driver>>

\* decode_varint::<D>(buf)
Decode(D) ==
    /\ rows' = <<[D |-> D, buf |-> pending, r |-> decode_varint(D, pending)]>>
    /\ UNCHANGED <<root, pending, out, driver>>

NextVarint ==
    \/ \E b \in ContinuationBytes \cup FinalBytes : AppendByte(b)
    \/ \E D \in Widths : Decode(D)

SpecVarint == InitVarint /\ [][NextVarint]_vars

(***************************************************************************)
(* Properties of decode_varint (SpecVarint)                                *)
(***************************************************************************)
\* the value the first n bytes of a slice encode, seven bits a byte
Encoded(buf, n) == Norm([i \in 1..n |-> buf[i] % 128])

\* bytes a varint of the width has at most, and the most its last byte can be
WidthBytes(D) == IF D = 32 THEN 5 ELSE 10

WidthTop(D) == IF D = 32 THEN 15 ELSE 1

\* the first n bytes are a varint whose value fits the width
Fits(D, buf, n) ==
    /\ n >= 1
    /\ n <= WidthBytes(D)
    /\ n = WidthBytes(D) => buf[n] <= WidthTop(D)

\* C11: decode_varint returns (v, n) for every encoding of n bytes of a
\* value v that fits the width (up to 2^32-1 for u32, 2^64-1 for u64), and
\* an error for a slice whose last byte of the width is above 0x0f for u32
\* (high nibble set, or a continuation) and above 0x01 for u64
C11_VarintFitsOrFails ==
    \A k \in 1..Len(rows) :
        LET D == rows[k].D
            buf == rows[k].buf
            n == FirstFinal(buf)
        IN /\ Fits(D, buf, n) => rows[k].r = VarintOk(Encoded(buf, n), n)
           /\ (/\ Len(buf) >= WidthBytes(D)
               /\ \A i \in 1..(WidthBytes(D) - 1) : buf[i] >= 128
               /\ buf[WidthBytes(D)] > WidthTop(D)) => rows[k].r.kind = "err"

\* FF FF FF FF 10, which is 2^32, decoded as u32 is an error
C11_Witness ==
    /\ rows # <<>>
    /\ rows[1].D = 32
    /\ rows[1].buf = <<255, 255, 255, 255, 16>>
    /\ rows[1].r.kind = "err"

\* C20: decode_varint, with its paths for one and two bytes, returns what
\* decode_varint_full returns for the same slice and width
C20_FastPathsAgree ==
    \A k \in 1..Len(rows) :
        rows[k].r = decode_varint_full(rows[k].D, rows[k].buf)

\* the two-byte path taken, with a byte left in the slice after the varint
C20_Witness ==
    /\ rows # <<>>
    /\ rows[1].buf = <<255, 127, 1>>
    /\ rows[1].r = VarintOk(<<127, 127>>, 2)


(***************************************************************************)
(* SpecBind: types.rs and bind of vtab.rs.  A schema is built field by     *)
(* field: message 1 is the root, and a field of type message or group      *)
(* opens a new message, or is of a message the schema has already (its own *)
(* or one that encloses it included).  bind is applied to the schema.      *)
(*   pending   the schema: per message, its fields                         *)
(*   rows      the outcome of bind of the schema, once bind has run        *)
(***************************************************************************)
\* fields of a schema
MaxFields == 3

Cardinalities == {"optional", "repeated"}

\* the calls of into_logical_type_single the stack of the thread has room
\* for, one inside the other
StackFrames == 6

\* FieldDescriptorProto types the schemas take their fields from
ProtoTypes ==
    {"int32", "string", "bytes", "sint32", "sint64", "fixed32", "fixed64",
     "sfixed32", "sfixed64", "message", "group"}

\* FieldDescriptor::kind(): the reflection library has no kind of its own
\* for a group; a group field has Kind::Message of the group's message
Kind(field) ==
    IF field.type \in {"message", "group"} THEN "message" ELSE field.type

\* the scalar arms of into_logical_type_single
LogicalTypeOf ==
    [enum |-> "Varchar", double |-> "Double", float |-> "Float",
     int32 |-> "Integer", int64 |-> "Bigint", uint32 |-> "UInteger",
     uint64 |-> "UBigint", bool |-> "Boolean", string |-> "Varchar"]

TypeOk(t) == [kind |-> "ok", type |-> t, field |-> <<>>]

\* format_err!("unhandled field: {}, type: {:?}", field.name(), ..)
TypeErr(field) == [kind |-> "err", type |-> <<>>, field |-> field.name]

\* the recursion has run out of stack: the process is aborted, the call
\* returns neither a type nor an error
TypeOverflow(field) == [kind |-> "overflow", type |-> <<>>, field |-> field.name]

\* depth counts the calls of into_logical_type_single the call is inside of
RECURSIVE into_logical_type(_, _, _), into_logical_type_single(_, _, _),
          struct_fields(_, _, _, _)
into_logical_type(schema, field, depth) ==
    LET wrapped(single) ==
            IF single.kind # "ok" THEN single
            ELSE IF field.cardinality = "repeated"
            THEN TypeOk(<<"List", single.type>>)
            ELSE single
    IN wrapped(into_logical_type_single(schema, field, depth))

\* the message arm maps the fields of the message of the field, whatever
\* messages the call is inside of
into_logical_type_single(schema, field, depth) ==
    CASE Kind(field) = "message" ->
            IF depth >= StackFrames THEN TypeOverflow(field)
            ELSE struct_fields(schema, schema[field.message], <<>>, depth + 1)
      [] Kind(field) \in DOMAIN LogicalTypeOf ->
            TypeOk(LogicalTypeOf[Kind(field)])
      [] OTHER -> TypeErr(field)

\* fields.iter().map(..).collect::<Result<Vec<_>, _>>(): the first error ends it
struct_fields(schema, fields, done, depth) ==
    LET next(t) ==
            IF t.kind # "ok" THEN t
            ELSE struct_fields(schema, Tail(fields),
                               Append(done, <<Head(fields).name, t.type>>),
                               depth)
    IN IF fields = <<>> THEN TypeOk(<<"Struct", done>>)
       ELSE next(into_logical_type(schema, Head(fields), depth))

\* the loop of bind over the fields of the root: add_result_column for each,
\* the first error returned with `?`; data.assign(params) comes last
RECURSIVE bind_fields(_, _, _)
bind_fields(schema, fields, columns) ==
    LET next(t) ==
            IF t.kind # "ok"
            THEN [status |-> t.kind, field |-> t.field, columns |-> columns,
                  assigned |-> FALSE]
            ELSE bind_fields(schema, Tail(fields),
                             Append(columns, <<Head(fields).name, t.type>>))
    IN IF fields = <<>>
       THEN [status |-> "ok", field |-> <<>>, columns |-> columns,
             assigned |-> TRUE]
       ELSE next(into_logical_type(schema, Head(fields), 0))

bind(schema) == bind_fields(schema, schema[1], <<>>)

FieldCount(schema) == SumSeq([m \in 1..Len(schema) |-> Len(schema[m])])

InitBind ==
    /\ root = "bind"
    /\ pending = <<<<>>>>
    /\ out = EmptyOut
    /\ rows = <<>>
    /\ DriverIdle

\* one more field in message m; a message or group field opens a message
AddField(m, cardinality, type) ==
    /\ m \in 1..Len(pending)
    /\ FieldCount(pending) < MaxFields
    /\ LET field == [name |-> <<m, Len(pending[m]) + 1>>,
                     cardinality |-> cardinality, type |-> type,
                     message |-> IF type \in {"message", "group"}
                                 THEN Len(pending) + 1 ELSE 0]
           added == [pending EXCEPT ![m] = Append(@, field)]
       IN pending' = IF field.message = 0 THEN added
                     ELSE Append(added, <<>>)
    /\ rows' = <<>>
    /\ UNCHANGED <<root, out, driver>>

\* one more field in message m, of a message the schema has: its own, one
\* that encloses it, or any other
AddLink(m, cardinality, target) ==
    /\ m \in 1..Len(pending)
    /\ target \in 1..Len(pending)
    /\ FieldCount(pending) < MaxFields
    /\ pending' = [pending EXCEPT ![m] =
                       Append(@, [name |-> <<m, Len(pending[m]) + 1>>,
                                  cardinality |-> cardinality,
                                  type |-> "message", message |-> target])]
    /\ rows' = <<>>
    /\ UNCHANGED <<root, out, driver>>

Bind ==
    /\ rows' = <<[schema |-> pending, r |-> bind(pending)]>>
    /\ UNCHANGED <<root, pending, out, driver>>

NextBind ==
    \/ \E m \in 1..MaxFields : \E c \in Cardinalities : \E t \in ProtoTypes :
          AddField(m, c, t)
    \/ \E m, target \in 1..MaxFields : \E c \in Cardinalities :
          AddLink(m, c, target)
    \/ Bind

SpecBind == InitBind /\ [][NextBind]_vars

(***************************************************************************)
(* Properties of bind (SpecBind)                                           *)
(***************************************************************************)
\* the kinds the table function does not support
Unsupported ==
    {"bytes", "sint32", "sint64", "fixed32", "fixed64", "sfixed32",
     "sfixed64", "group"}

\* the messages reached from the messages ms through message fields
RECURSIVE Closure(_, _)
Closure(schema, ms) ==
    LET more == ms \cup ({f.message : f \in UNION {Range(schema[m]) : m \in ms}}
                             \ {0})
    IN IF more = ms THEN ms ELSE Closure(schema, more)

\* the fields of message m and of the messages reached from it
Reached(schema, m) == UNION {Range(schema[k]) : k \in Closure(schema, {m})}

\* C13: when a field of an unsupported kind (bytes, sint32, sint64, fixed32,
\* fixed64, sfixed32, sfixed64, group) is reached from the root message,
\* through optional or repeated message fields at any depth, bind fails with
\* an error that names such a field, and the bind data is not assigned
C13_UnsupportedKindFailsBind ==
    \A k \in 1..Len(rows) :
        LET bad == {f \in Reached(rows[k].schema, 1) : f.type \in Unsupported}
        IN bad # {} =>
              /\ rows[k].r.status = "err"
              /\ rows[k].r.field \in {f.name : f \in bad}
              /\ ~rows[k].r.assigned

\* bind has failed on a bytes field of a message that the root holds in a
\* repeated message field
C13_Witness ==
    /\ rows # <<>>
    /\ rows[1].r.status = "err"
    /\ \E f \in Range(rows[1].schema[1]) :
          /\ f.type = "message"
          /\ f.cardinality = "repeated"
          /\ \E g \in Range(rows[1].schema[f.message]) :
                g.type = "bytes" /\ rows[1].r.field = g.name

\* the message of a field is reached again from that message
Cyclic(schema) ==
    \E m \in 1..Len(schema) :
        \E f \in Range(schema[m]) :
            f.message # 0 /\ m \in Closure(schema, {f.message})

\* C28: for every schema, those with a message that holds itself - directly
\* or through other messages - included, the mapping of the fields of the
\* root ends with a type for each or with an error
C28_MappingTerminates ==
    \A k \in 1..Len(rows) : rows[k].r.status \in {"ok", "err"}

(***************************************************************************)
(* SpecProject: the synthetic columns under projection pushdown.  bind has *)
(* declared the fields of B and the synthetic columns that are switched    *)
(* on; the query selects some of the declared columns, in some order, and  *)
(* func writes the synthetic columns of the rows of a chunk.               *)
(*   params   the flags and the column_indices of the query                *)
(*   rows     per row, the record's values and the vectors written         *)
(***************************************************************************)
\* rows written
MaxWrites == 2

\* path, position and size of the records func is given
Values ==
    {[path |-> 1, position |-> 0, size |-> 2],
     [path |-> 2, position |-> 6, size |-> 0]}

\* the orders in which a query can select columns among n declared ones
Selections(n) ==
    UNION {{q \in [1..k -> 0..(n - 1)] :
               \A i, j \in 1..k : i # j => q[i] # q[j]} : k \in 0..n}

InitProject ==
    /\ root = DriverRoot
    /\ pending = <<>>
    /\ out = EmptyOut
    /\ rows = <<>>
    /\ params \in {p \in [include_filename : BOOLEAN,
                          include_position : BOOLEAN,
                          include_size : BOOLEAN,
                          column_indices : Selections(Len(Pool[DriverRoot]) + 3)] :
                      p.column_indices \in Selections(Len(bind_columns(p)))}
    /\ queue = <<>>
    /\ current = <<>>
    /\ call = <<>>
    /\ chunks = <<>>
    /\ popped = <<>>

\* the synthetic columns of the next row of the chunk
WriteSynthetic(v) ==
    /\ Len(rows) < MaxWrites
    /\ rows' = Append(rows, [v |-> v,
                             synthetic |-> synthetic_columns(
                                 params, Len(Pool[DriverRoot]), v)])
    /\ UNCHANGED <<root, pending, out, driver>>

NextProject == \E v \in Values : WriteSynthetic(v)

SpecProject == InitProject /\ [][NextProject]_vars

(***************************************************************************)
(* Properties of the synthetic columns under projection (SpecProject)      *)
(***************************************************************************)
\* the index at which bind declared a synthetic column, -1 when it is off
DeclaredAt(name) ==
    LET bound == {i \in DOMAIN bind_columns(params) :
                     bind_columns(params)[i] = <<name, 0>>}
    IN IF bound = {} THEN -1 ELSE (CHOOSE i \in bound : TRUE) - 1

\* the output vectors of the query that stand for a declared column
VectorsOf(declared) ==
    {i - 1 : i \in {j \in DOMAIN params.column_indices :
                       params.column_indices[j] = declared}}

\* C22: for every combination of the flags and every selection of columns,
\* the value of each synthetic column that is on is written to the output
\* vector i with column_indices[i] equal to the index at which bind declared
\* the column, and to no vector when the query does not select the column;
\* nothing else is written
C22_SyntheticColumnsFollowProjection ==
    \A k \in 1..Len(rows) :
        LET placed(name, value) ==
                \A i \in VectorsOf(DeclaredAt(name)) :
                    Get(rows[k].synthetic, i, -1) = value
        IN /\ placed("filename", rows[k].v.path)
           /\ placed("position", rows[k].v.position)
           /\ placed("size", rows[k].v.size)
           /\ DOMAIN rows[k].synthetic =
                  UNION {VectorsOf(DeclaredAt(n)) :
                             n \in {"filename", "position", "size"}}

\* filename is off, position and size are on, and the query selects size
\* and then the field: the size is in vector 0 and the position in none
C22_Witness ==
    /\ rows # <<>>
    /\ ~params.include_filename
    /\ params.include_position
    /\ params.include_size
    /\ params.column_indices = <<2, 0>>
    /\ rows[1].synthetic = (0 :> rows[1].v.size)
    /\ rows[1].v.size = 2

(***************************************************************************)
(* filtered_dynamic_message.rs: FilteredDynamicMessage over DynamicMessage *)
(* (prost_reflect) and prost's Message::merge.  A message value maps the   *)
(* numbers of the fields that occurred to their values; a field that is    *)
(* not in the map is at its default.  A decode gives the message and the   *)
(* bytes left, or an error                                                 *)
(***************************************************************************)
DecodeErr == [kind |-> "err", message |-> <<>>, rest |-> <<>>]

Decoded(message, rest) == [kind |-> "ok", message |-> message, rest |-> rest]

Drop(buf, n) == SubSeq(buf, n + 1, Len(buf))

\* prost::encoding::decode_varint: a varint of 64 bits; a buffer that ends
\* before the varint does is an error
prost_decode_varint(buf) ==
    LET checked(r) == IF r.kind = "ok" THEN r ELSE VarintErr
    IN checked(decode_varint(64, buf))

\* prost::encoding::decode_key: the key is a u32, its wire type is 0..5 and
\* its field number is not 0
decode_key(buf) ==
    LET key(r) ==
            IF r.kind # "ok" THEN [kind |-> "err"]
            ELSE IF Len(r.value) > 5 \/ (Len(r.value) = 5 /\ r.value[5] > 15)
            THEN [kind |-> "err"]
            ELSE IF WireTypeOf(r.value) > 5 \/ FieldNumberOf(r.value) = 0
            THEN [kind |-> "err"]
            ELSE [kind |-> "ok", number |-> FieldNumberOf(r.value),
                  wire_type |-> WireTypeOf(r.value),
                  rest |-> Drop(buf, r.consumed)]
    IN key(prost_decode_varint(buf))

\* the bytes of a length-delimited value and the bytes after it
delimited(buf) ==
    LET value(r) ==
            IF r.kind # "ok" THEN [kind |-> "err"]
            ELSE IF AsLen(r.value) > Len(buf) - r.consumed THEN [kind |-> "err"]
            ELSE [kind |-> "ok",
                  value |-> SubSeq(buf, r.consumed + 1,
                                   r.consumed + AsLen(r.value)),
                  rest |-> Drop(buf, r.consumed + AsLen(r.value))]
    IN value(prost_decode_varint(buf))

\* UnknownField::decode_value: the value is read by its wire type alone; the
\* result is the bytes after it
RECURSIVE decode_value(_, _, _)
decode_value(number, wire_type, buf) ==
    LET skipped(rest) == [kind |-> "ok", rest |-> rest]
        varint(r) ==
            IF r.kind # "ok" THEN [kind |-> "err"]
            ELSE skipped(Drop(buf, r.consumed))
        fixed(n) == IF Len(buf) < n THEN [kind |-> "err"] ELSE skipped(Drop(buf, n))
        bytes(r) == IF r.kind # "ok" THEN [kind |-> "err"] ELSE skipped(r.rest)
        member(k) ==
            IF k.kind # "ok" THEN [kind |-> "err"]
            ELSE IF k.wire_type = 4
            THEN IF k.number = number THEN skipped(k.rest) ELSE [kind |-> "err"]
            ELSE LET next(r) ==
                         IF r.kind # "ok" THEN r
                         ELSE decode_value(number, 3, r.rest)
                 IN next(decode_value(k.number, k.wire_type, k.rest))
    IN CASE wire_type = 0 -> varint(prost_decode_varint(buf))
         [] wire_type = 1 -> fixed(8)
         [] wire_type = 5 -> fixed(4)
         [] wire_type = 2 -> bytes(delimited(buf))
         [] wire_type = 3 -> member(decode_key(buf))
         [] OTHER -> [kind |-> "err"]

\* the wire type prost's merge functions check for a value of the kind
WireTypeFor(kind) ==
    CASE kind \in {"string", "message"} -> 2
      [] kind = "double" -> 1
      [] kind = "float" -> 5
      [] OTHER -> 0

\* the elements of a packed list of varints
RECURSIVE packed_list(_, _, _)
packed_list(D, buf, values) ==
    IF buf = <<>> THEN [kind |-> "ok", values |-> values]
    ELSE LET next(r) ==
                 IF r.kind # "ok" THEN [kind |-> "err"]
                 ELSE packed_list(D, Drop(buf, r.consumed),
                                  Append(values, from_u64(D, r.value)))
         IN next(prost_decode_varint(buf))

RECURSIVE merge_loop(_, _, _, _, _)

\* Value::merge_field for one value of the kind of the field: the value
\* after the merge and the bytes after it
merge_value(field, value, wire_type, buf) ==
    LET merged(v, rest) == [kind |-> "ok", value |-> v, rest |-> rest]
        varint(r) ==
            IF r.kind # "ok" THEN [kind |-> "err"]
            ELSE merged(from_u64(IF field.kind \in {"int32", "uint32"}
                                 THEN 32 ELSE 64, r.value),
                        Drop(buf, r.consumed))
        fixed(n) ==
            IF Len(buf) < n THEN [kind |-> "err"]
            ELSE merged(SubSeq(buf, 1, n), Drop(buf, n))
        string(r) ==
            IF r.kind # "ok" \/ \E i \in DOMAIN r.value : r.value[i] >= 128
            THEN [kind |-> "err"]
            ELSE merged(r.value, r.rest)
        nested(r, m) ==
            IF m.kind # "ok" THEN [kind |-> "err"] ELSE merged(m.message, r.rest)
        message(r) ==
            IF r.kind # "ok" THEN [kind |-> "err"]
            ELSE nested(r, merge_loop(field.type, FALSE, {}, value, r.value))
    IN IF wire_type # WireTypeFor(field.kind) THEN [kind |-> "err"]
       ELSE CASE field.kind = "string" -> string(delimited(buf))
              [] field.kind = "message" -> message(delimited(buf))
              [] field.kind = "double" -> fixed(8)
              [] field.kind = "float" -> fixed(4)
              [] OTHER -> varint(prost_decode_varint(buf))

\* DynamicMessage::merge_field: a field of the descriptor is merged into its
\* value - a repeated field gets one more element, or the elements of a
\* packed list - and any other field is read as an unknown field
dynamic_merge_field(desc, message, number, wire_type, buf) ==
    LET field == Pool[desc][get_field(desc, number)]
        set(r) ==
            IF r.kind # "ok" THEN DecodeErr
            ELSE Decoded(Put(message, number, r.value), r.rest)
        push(r) ==
            IF r.kind # "ok" THEN DecodeErr
            ELSE Decoded(Put(message, number,
                             Append(Get(message, number, <<>>), r.value)),
                         r.rest)
        extend(r, p) ==
            IF p.kind # "ok" THEN DecodeErr
            ELSE Decoded(Put(message, number,
                             Get(message, number, <<>>) \o p.values), r.rest)
        packed(r) ==
            IF r.kind # "ok" THEN DecodeErr
            ELSE extend(r, packed_list(IF field.kind \in {"int32", "uint32"}
                                       THEN 32 ELSE 64, r.value, <<>>))
        unknown(r) ==
            IF r.kind # "ok" THEN DecodeErr ELSE Decoded(message, r.rest)
    IN IF get_field(desc, number) = 0
       THEN unknown(decode_value(number, wire_type, buf))
       ELSE IF field.cardinality # "repeated"
       THEN set(merge_value(field, Get(message, number, <<>>), wire_type, buf))
       ELSE IF wire_type = 2 /\ field.kind \notin {"string", "message"}
       THEN packed(delimited(buf))
       ELSE push(merge_value(field, <<>>, wire_type, buf))

\* FilteredDynamicMessage::merge_field: a field that is not accepted is read
\* by UnknownField::decode_value and dropped
filtered_merge_field(accepted_fields, desc, message, number, wire_type, buf) ==
    LET unknown(r) ==
            IF r.kind # "ok" THEN DecodeErr ELSE Decoded(message, r.rest)
    IN IF number \notin accepted_fields
       THEN unknown(decode_value(number, wire_type, buf))
       ELSE dynamic_merge_field(desc, message, number, wire_type, buf)

\* Message::merge: decode_key and merge_field while bytes remain, of a
\* FilteredDynamicMessage (filtered) or of a DynamicMessage
merge_loop(desc, filtered, accepted_fields, message, buf) ==
    IF buf = <<>> THEN Decoded(message, buf)
    ELSE LET next(r) ==
                 IF r.kind # "ok" THEN DecodeErr
                 ELSE merge_loop(desc, filtered, accepted_fields,
                                 r.message, r.rest)
             field(k) ==
                 IF k.kind # "ok" THEN DecodeErr
                 ELSE IF filtered
                 THEN next(filtered_merge_field(accepted_fields, desc, message,
                                                k.number, k.wire_type, k.rest))
                 ELSE next(dynamic_merge_field(desc, message, k.number,
                                               k.wire_type, k.rest))
         IN field(decode_key(buf))

\* the accepted fields func gives the FilteredDynamicMessage: the numbers of
\* the fields at the column indices of the query that are fields
accepted_fields_of(column_indices, desc) ==
    {Pool[desc][column_indices[i] + 1].number :
         i \in {j \in DOMAIN column_indices :
                   column_indices[j] < Len(Pool[desc])}}

(***************************************************************************)
(* SpecFilter: a record of Rec is put together part by part and decoded    *)
(* both by the FilteredDynamicMessage of a query and by a DynamicMessage.  *)
(*   params   the filename flag and the column_indices of the query        *)
(*   pending  the parts of the record                                      *)
(*   rows     the record, the accepted fields and the two results          *)
(***************************************************************************)
\* parts of a record
MaxFilterParts == 2

\* columns a query selects
MaxSelected == 2

FilterRoot == "Rec"

\* well-formed occurrences of fields of Rec and of an unknown field
FilterWellFormed ==
    {StrOcc(1, <<97>>), IntOcc(2, 1), MsgOcc(5, IntOcc(1, 3).bytes),
     MsgOcc(5, PackedOcc(1, <<1, 2>>).bytes),
     SkipOcc(UnknownNumber, 0, <<1>>)}

\* occurrences with malformed framing: a sub-message that ends inside a
\* value, a string that declares more bytes than are left, a tag alone
FilterCut ==
    {MsgOcc(5, <<8>>), Occ(1, 2, <<5, 97>>, <<>>), Occ(2, 0, <<>>, <<>>)}

FilterParts == FilterWellFormed \cup FilterCut

InitFilter ==
    /\ root = FilterRoot
    /\ pending = <<>>
    /\ out = EmptyOut
    /\ rows = <<>>
    /\ params \in {p \in [include_filename : BOOLEAN,
                          include_position : {FALSE},
                          include_size : {FALSE},
                          column_indices : Selections(Len(Pool[FilterRoot]) + 1)] :
                      /\ Len(p.column_indices) <= MaxSelected
                      /\ \A i \in DOMAIN p.column_indices :
                             p.column_indices[i] <
                                 Len(Pool[FilterRoot])
                                     + (IF p.include_filename THEN 1 ELSE 0)}
    /\ queue = <<>>
    /\ current = <<>>
    /\ call = <<>>
    /\ chunks = <<>>
    /\ popped = <<>>

\* one more part of the record
AddFilterPart(o) ==
    /\ rows = <<>>
    /\ Len(pending) < MaxFilterParts
    /\ pending' = Append(pending, o)
    /\ UNCHANGED <<root, out, rows, driver>>

\* message.merge(bytes) of the FilteredDynamicMessage func builds, next to
\* the merge of a DynamicMessage of the same descriptor
DecodeFiltered ==
    /\ rows = <<>>
    /\ rows' = <<[occs |-> pending,
                  accepted |-> accepted_fields_of(params.column_indices, root),
                  filtered |-> merge_loop(root, TRUE,
                                  accepted_fields_of(params.column_indices, root),
                                  <<>>, RecordBytes(pending)),
                  full |-> merge_loop(root, FALSE, {}, <<>>,
                                      RecordBytes(pending))]>>
    /\ UNCHANGED <<root, pending, out, driver>>

NextFilter ==
    \/ \E o \in FilterParts : AddFilterPart(o)
    \/ DecodeFiltered

SpecFilter == InitFilter /\ [][NextFilter]_vars

(***************************************************************************)
(* Properties of the filtered decode (SpecFilter)                          *)
(***************************************************************************)
\* a message with every field outside the set at its default
Restricted(message, fields) ==
    [n \in (DOMAIN message) \cap fields |-> message[n]]

\* when both decodes succeed, the filtered message is the full one with the
\* fields that are not accepted at their defaults, and both consume the
\* whole record
FilteredMessageAgrees ==
    (rows # <<>> /\ rows[1].filtered.kind = "ok" /\ rows[1].full.kind = "ok") =>
        /\ rows[1].filtered.message
               = Restricted(rows[1].full.message, rows[1].accepted)
        /\ rows[1].filtered.rest = rows[1].full.rest

\* the synthetic column a query selects adds no accepted field
SyntheticAddsNoField ==
    rows # <<>> =>
        rows[1].accepted
            = {Pool[root][i].number :
                   i \in {j \in DOMAIN Pool[root] :
                             \E k \in DOMAIN params.column_indices :
                                 params.column_indices[k] = j - 1}}

\* C24: the decode through the FilteredDynamicMessage of a query gives the
\* message of the full decode with every field that is not accepted at its
\* default, consumes the same bytes, and returns an error exactly when the
\* full decode does (every error of these records is one of framing); the
\* accepted fields are the fields at the column indices of the query
C24_FilteredDecodeAgrees ==
    rows # <<>> =>
        /\ FilteredMessageAgrees
        /\ SyntheticAddsNoField
        /\ rows[1].filtered.kind = "err" <=> rows[1].full.kind = "err"

(***************************************************************************)
(* src/read.rs: ProtobufMessageWriter, which decodes a record straight     *)
(* into the vectors of the chunk.  A writer is its base_column_key, its    *)
(* seen_repeated_fields, its message descriptor, its output (the key of    *)
(* the struct vector, or <<>> for the chunk) and its output_row_idx.  The  *)
(* vectors are named as above; nulls holds the rows set_null was called    *)
(* for, as pairs of vector and row                                         *)
(***************************************************************************)
WriterOut ==
    [column_information |-> <<>>, entries |-> <<>>, list_size |-> <<>>,
     data |-> <<>>, nulls |-> {}, status |-> "ok"]

Writer(base_column_key, desc, output, output_row_idx) ==
    [base_column_key |-> base_column_key, seen_repeated_fields |-> {},
     desc |-> desc, output |-> output, output_row_idx |-> output_row_idx]

\* the result of a step of a writer: the vectors, the writer, the bytes left
Merged(st, w, buf) == [kind |-> "ok", st |-> st, w |-> w, buf |-> buf]

MergeErr(st, w) ==
    [kind |-> "err", st |-> [st EXCEPT !.status = "err"], w |-> w, buf |-> <<>>]

\* the loops `for .. filter(!seen_tags.contains(number)) { set_null(row) }`
\* over the fields of a writer's message and the vectors of its output
set_null(st, w, seen_tags) ==
    [st EXCEPT !.nulls =
        @ \cup {<<Append(w.output, Pool[w.desc][i].number), w.output_row_idx>> :
                  i \in {j \in DOMAIN Pool[w.desc] :
                            Pool[w.desc][j].number \notin seen_tags}}]

RECURSIVE writer_loop(_, _, _, _, _)
RECURSIVE writer_merge_field(_, _, _, _, _)

\* the list entry of the row before the element is added: begun at the
\* ledger's offset when the writer sees the field for the first time
list_entry(st, w, field, column_key) ==
    IF field.number \notin w.seen_repeated_fields
    THEN <<Get(st.column_information, column_key, 0), 0>>
    ELSE EntryAt(st, Append(w.output, field.number), w.output_row_idx)

\* the loop after a sub-message has been decoded: it runs over
\* self.message_descriptor, self.output and self.output_row_idx - the
\* enclosing writer - with the tags seen in the sub-message
nested_set_null(st, w, writer, seen_tags) == set_null(st, w, seen_tags)

merge_single_field(w, st, field, wire_type, buf, output_vector, row_idx) ==
    LET writer == Writer(Append(w.base_column_key, field.number), field.type,
                         output_vector, row_idx)
        closed(r, limit) ==
            IF r.kind # "ok" THEN MergeErr(st, w)
            ELSE IF Len(r.buf) # limit THEN MergeErr(r.st, w)
            ELSE Merged(nested_set_null(r.st, w, writer, r.seen_tags),
                        w, r.buf)
        message(r) ==
            IF r.kind # "ok" THEN MergeErr(st, w)
            ELSE IF AsLen(r.value) > Len(buf) - r.consumed THEN MergeErr(st, w)
            ELSE closed(writer_loop(writer, st, Drop(buf, r.consumed),
                                    Len(buf) - r.consumed - AsLen(r.value), {}),
                        Len(buf) - r.consumed - AsLen(r.value))
        name(v) ==
            LET e == Enums[field.type]
            IN IF IsSmall(v) /\ ToNat(v) + 1 \in DOMAIN e.names
               THEN e.names[ToNat(v) + 1] ELSE <<"unknown", v>>
        enum(r) ==
            IF r.kind # "ok" THEN MergeErr(st, w)
            ELSE Merged([st EXCEPT !.data =
                            Put2(@, output_vector, row_idx, name(r.value))],
                        w, r.rest)
        scalar(r) ==
            IF r.kind # "ok" THEN MergeErr(st, w)
            ELSE Merged([st EXCEPT !.data =
                            Put2(@, output_vector, row_idx, r.value)],
                        w, r.rest)
    IN CASE field.kind = "message" ->
                IF wire_type # 2 THEN MergeErr(st, w)
                ELSE message(prost_decode_varint(buf))
         [] field.kind = "enum" ->
                enum(merge_value([field EXCEPT !.kind = "int32"], <<>>,
                                 wire_type, buf))
         [] field.kind \in {"string", "uint32", "uint64", "double", "float",
                            "int64", "int32", "bool"} ->
                scalar(merge_value(field, <<>>, wire_type, buf))
         [] OTHER -> MergeErr(st, w)

\* ProtobufMessageWriter::merge_field
writer_merge_field(w, st, tag, wire_type, buf) ==
    LET field == Pool[w.desc][get_field(w.desc, tag)]
        skipped(r) ==
            IF r.kind # "ok" THEN MergeErr(st, w) ELSE Merged(st, w, r.rest)
        column_key == w.base_column_key \o <<tag, List>>
        list_vector == Append(w.output, tag)
        element(entry) ==
            merge_single_field(
                [w EXCEPT !.seen_repeated_fields = @ \cup {tag}],
                [st EXCEPT
                    !.entries = Put2(@, list_vector, w.output_row_idx,
                                     <<entry[1], entry[2] + 1>>),
                    !.list_size = Put(@, list_vector, entry[1] + entry[2] + 1),
                    !.column_information =
                        Put(@, column_key, entry[1] + entry[2] + 1)],
                field, wire_type, buf, Append(list_vector, List),
                entry[1] + entry[2])
    IN IF get_field(w.desc, tag) = 0
       THEN skipped(decode_value(tag, wire_type, buf))
       ELSE IF field.cardinality = "repeated"
       THEN element(list_entry(st, w, field, column_key))
       ELSE merge_single_field(w, st, field, wire_type, buf,
                               Append(w.output, tag), w.output_row_idx)

\* `while buf.remaining() > limit { decode_key; merge_field; seen_tags.insert }`
writer_loop(w, st, buf, limit, seen_tags) ==
    IF Len(buf) <= limit
    THEN [kind |-> "ok", st |-> st, w |-> w, buf |-> buf, seen_tags |-> seen_tags]
    ELSE LET next(k, r) ==
                 IF r.kind # "ok"
                 THEN [kind |-> "err", st |-> r.st, w |-> w, buf |-> <<>>,
                       seen_tags |-> seen_tags]
                 ELSE writer_loop(r.w, r.st, r.buf, limit,
                                  seen_tags \cup {k.number})
             field(k) ==
                 IF k.kind # "ok"
                 THEN [kind |-> "err", st |-> [st EXCEPT !.status = "err"],
                       w |-> w, buf |-> <<>>, seen_tags |-> seen_tags]
                 ELSE next(k, writer_merge_field(w, st, k.number, k.wire_type,
                                                 k.rest))
         IN field(decode_key(buf))

\* ProtobufMessageWriter::merge of the writer the legacy func builds for a
\* row: the fields of the record, then the columns without a tag set null
writer_merge(st, desc, output_row_idx, buf) ==
    LET done(r) ==
            IF r.kind # "ok" THEN r.st ELSE set_null(r.st, r.w, r.seen_tags)
    IN done(writer_loop(Writer(<<>>, desc, <<>>, output_row_idx), st, buf, 0, {}))

(***************************************************************************)
(* SpecWriter: the records of a chunk are put together part by part and    *)
(* decoded by ProtobufMessageWriter::merge into successive rows, all with  *)
(* the column_information of the call                                      *)
(*   pending  the parts of the next record                                 *)
(*   out      the vectors, the nulls and the ledger                        *)
(*   rows     the records decoded so far                                   *)
(***************************************************************************)
\* parts of a record
MaxWriterParts == 2

\* rows of the chunk
MaxWriterRows == 2

WriterRoot == "Rec"

\* occurrences of the fields of Rec: the sub-message B of field 5 with one
\* element of v, with two, and with none
WriterParts ==
    {StrOcc(1, <<97>>), IntOcc(2, 1),
     MsgOcc(5, IntOcc(1, 3).bytes),
     MsgOcc(5, IntOcc(1, 1).bytes \o IntOcc(1, 2).bytes),
     MsgOcc(5, <<>>),
     SkipOcc(UnknownNumber, 0, <<1>>)}

InitWriter ==
    /\ root = WriterRoot
    /\ pending = <<>>
    /\ out = WriterOut
    /\ rows = <<>>
    /\ DriverIdle

AddWriterPart(o) ==
    /\ Len(rows) < MaxWriterRows
    /\ Len(pending) < MaxWriterParts
    /\ pending' = Append(pending, o)
    /\ UNCHANGED <<root, out, rows, driver>>

\* one iteration of the loop of the legacy func: the writer of the row and
\* its merge of the record
MergeRow ==
    /\ Len(rows) < MaxWriterRows
    /\ out.status = "ok"
    /\ out' = writer_merge(out, root, Len(rows), RecordBytes(pending))
    /\ rows' = Append(rows, [occs |-> pending, pre |-> out])
    /\ pending' = <<>>
    /\ UNCHANGED <<root, driver>>

NextWriter ==
    \/ \E o \in WriterParts : AddWriterPart(o)
    \/ MergeRow

SpecWriter == InitWriter /\ [][NextWriter]_vars

(***************************************************************************)
(* Properties of ProtobufMessageWriter (SpecWriter)                        *)
(***************************************************************************)
\* C25: after merge, a top-level column is null in a row exactly when the
\* record of the row has no tag of the field at top level; in particular
\* the decoding of a sub-message nulls no column of the enclosing message
\* whose field is present
C25_NullIffAbsent ==
    out.status = "ok" =>
        \A k \in 1..Len(rows) :
            \A i \in DOMAIN Pool[root] :
                <<<<Pool[root][i].number>>, k - 1>> \in out.nulls
                    <=> OccsOf(rows[k].occs, Pool[root][i].number) = <<>>

\* the elements of v in the occurrences of field 5 of a record, in order
NestedElems(occs) ==
    Flatten([i \in 1..Len(OccsOf(occs, 5)) |->
                 LET r == merge_loop("B", FALSE, {}, <<>>,
                                     OccsOf(occs, 5)[i].elems[1])
                 IN Get(r.message, 1, <<>>)])

\* C27: when the sub-message field 5 occurs in a record, once or more, the
\* list entry of v in the row covers the elements of all the occurrences,
\* in order, and the size of the child vector of v is the sum of the
\* lengths of the list entries of the chunk
C27_RepeatedOccurrencesOfSubMessage ==
    out.status = "ok" =>
        /\ \A k \in 1..Len(rows) :
              OccsOf(rows[k].occs, 5) # <<>> =>
                  LET entry == EntryAt(out, <<5, 1>>, k - 1)
                      elems == NestedElems(rows[k].occs)
                  IN elems # <<>> =>
                        /\ entry # <<>>
                        /\ entry[2] = Len(elems)
                        /\ \A j \in 1..Len(elems) :
                               DataAt(out, <<5, 1, List>>, entry[1] + j - 1)
                                   = elems[j]
        /\ Get(out.list_size, <<5, 1>>, 0)
               = SumSeq([k \in 1..Len(rows) |->
                            IF EntryAt(out, <<5, 1>>, k - 1) = <<>> THEN 0
                            ELSE EntryAt(out, <<5, 1>>, k - 1)[2]])

(***************************************************************************)
(* SpecLayout: bind declares the columns of Event with into_logical_type,  *)
(* and func writes messages of Event into the rows of a chunk with         *)
(* write_to_output.                                                        *)
(*   out    the vectors written                                            *)
(*   rows   the messages written                                           *)
(***************************************************************************)
LayoutRoot == "Event"

\* the messages of the pool Event is made of, in the order bind meets them
LayoutMessages == <<"Event", "Timestamp", "B">>

\* the descriptors of LayoutMessages as the schema bind maps, with a field
\* named by its number
LayoutSchema ==
    [m \in DOMAIN LayoutMessages |->
        [i \in DOMAIN Pool[LayoutMessages[m]] |->
            LET field == Pool[LayoutMessages[m]][i]
            IN [name |-> field.number, cardinality |-> field.cardinality,
                type |-> field.kind,
                message |-> IF field.kind # "message" THEN 0
                            ELSE CHOOSE k \in DOMAIN LayoutMessages :
                                     LayoutMessages[k] = field.type]]]

\* the values of the fields of the messages written
LayoutSeconds == {0, 1}
LayoutNanos == {0, 5000}
LayoutInts == {1, 2}
LayoutLists == {<<>>, <<7>>}

InitLayout ==
    /\ root = LayoutRoot
    /\ pending = <<>>
    /\ out = EmptyOut
    /\ rows = <<>>
    /\ DriverIdle

\* write_to_output of a message of Event into the next row of the chunk
WriteEvent(seconds, nanos, n, v) ==
    /\ out.status = "ok"
    /\ Len(rows) < MaxRows
    /\ LET msg == (1 :> <<seconds, nanos>>) @@ (2 :> n) @@ (3 :> (1 :> v))
       IN /\ out' = write_to_output(out, msg, root, MaxRows, Len(rows))
          /\ rows' = Append(rows, [msg |-> msg, pre |-> out])
    /\ UNCHANGED <<root, pending, driver>>

NextLayout ==
    \E seconds \in LayoutSeconds : \E nanos \in LayoutNanos :
        \E n \in LayoutInts : \E v \in LayoutLists :
            WriteEvent(seconds, nanos, n, v)

SpecLayout == InitLayout /\ [][NextLayout]_vars

(***************************************************************************)
(* Properties of the layout written (SpecLayout)                           *)
(***************************************************************************)
\* the vectors that hold the values of a column of the logical type declared
\* for a field: the vectors of the child for a LIST (a repeated field), the
\* vectors of the fields for a STRUCT (a message field), else the vector
\* itself; single says that the type is that of one element of the field
RECURSIVE Leaves(_, _, _, _)
Leaves(field, single, type, key) ==
    IF ~single /\ field.cardinality = "repeated"
    THEN Leaves(field, TRUE, type[2], Append(key, List))
    ELSE IF Kind(field) # "message" THEN {key}
    ELSE UNION {Leaves(LayoutSchema[field.message][i], FALSE, type[2][i][2],
                       Append(key, type[2][i][1])) : i \in DOMAIN type[2]}

\* the logical type bind declares for a field of the root
Declared(i) == into_logical_type(LayoutSchema, LayoutSchema[1][i], 0).type

\* the vectors of the values of the columns bind declares
DeclaredLeaves ==
    UNION {Leaves(LayoutSchema[1][i], FALSE, Declared(i),
                  <<LayoutSchema[1][i].name>>) : i \in DOMAIN LayoutSchema[1]}

\* C29: write_to_output writes the values of every column in the layout of
\* the logical type bind declared for it: values go to the vectors that
\* hold values under that type and to no other, each row of a column that
\* is not a list gets its value, and a Timestamp - declared a STRUCT over
\* seconds and nanos - is written through the vectors of its two fields
C29_WrittenAsDeclared ==
    (rows # <<>> /\ out.status = "ok") =>
        /\ DOMAIN out.data \subseteq DeclaredLeaves
        /\ \A key \in DeclaredLeaves :
              List \notin Range(key) =>
                  \A k \in 1..Len(rows) : k - 1 \in DOMAIN Get(out.data, key, <<>>)
        /\ \A k \in 1..Len(rows) :
              /\ DataAt(out, <<1, 1>>, k - 1) = rows[k].msg[1][1]
              /\ DataAt(out, <<1, 2>>, k - 1) = rows[k].msg[1][2]

(***************************************************************************)
(* SpecHandle: the host allocates the memory of a Handle, hands it to      *)
(* bind, init or local_init, lets func reach the handles of the callbacks  *)
(* that succeeded, and at the end of the query calls free on every handle  *)
(* it allocated, whatever its callback returned.                           *)
(*   root     the table function: that of packages/duckdb_protobuf or the  *)
(*            one of src/src                                               *)
(*   params   the arguments of the query                                   *)
(*   out      per handle, the pointer it holds                             *)
(*   call     per handle, what its callback returned                       *)
(*   rows     the dereferences and frees so far                            *)
(*   pending  <<>> while the query runs, <<"closed">> once it is over      *)
(*   popped   the handles freed                                            *)
(***************************************************************************)
MaxCalls == 2

VTabs == {"duckdb_protobuf", "legacy"}

\* what the memory of a Handle holds when the host passes it in: the
\* allocation is not cleared, so the pointer is either all zero bits or not
Malloc == {"zero", "wild"}

BindData == <<"bind">>
InitData == <<"init">>
LocalInitData(w) == <<"local", w>>

\* a Handle: inner is the pointer, set the last method that stored it and
\* boxes the number of boxes assign made for it
Handle(bits) == [inner |-> bits, set |-> "never", boxes |-> 0]

Handle_init(h) == [h EXCEPT !.inner = "zero", !.set = "init"]

Handle_assign(h) ==
    [h EXCEPT !.inner = "box", !.set = "assign", !.boxes = @ + 1]

\* what free drops: nothing through a null pointer, else the box the
\* pointer is taken to name
Handle_free(h) == IF h.inner = "zero" THEN "nothing" ELSE h.inner

Returned(h, result) == [handle |-> h, result |-> result]

\* ProtobufVTab::bind of packages/duckdb_protobuf
vtab_bind(data, p) ==
    LET h == Handle_init(data)
    IN IF p.arguments # "ok" THEN Returned(h, "err")
       ELSE IF p.types # "ok" THEN Returned(h, "err")
       ELSE Returned(Handle_assign(h), "ok")

\* ProtobufVTab::init of packages/duckdb_protobuf
vtab_init(data, p) ==
    LET h == Handle_init(data)
    IN IF p.files # "match" THEN Returned(h, "err")
       ELSE Returned(Handle_assign(h), "ok")

\* ProtobufVTab::local_init: message_descriptor decodes the descriptor
\* bytes from_bind_info decoded and kept
vtab_local_init(data, p) ==
    IF p.arguments # "ok" THEN Returned(data, "err")
    ELSE Returned(Handle_assign(Handle_init(data)), "ok")

\* ProtobufVTab::bind of src/src
legacy_bind(data, p) ==
    IF p.arguments # "ok" THEN Returned(data, "err")
    ELSE IF p.types # "ok" THEN Returned(data, "err")
    ELSE Returned(Handle_assign(data), "ok")

\* ProtobufVTab::init of src/src: RecordsReader::new fails on a pattern
\* that is not a glob
legacy_init(data, p) ==
    IF p.files = "bad_pattern" THEN Returned(data, "err")
    ELSE Returned(Handle_assign(data), "ok")

InitHandle ==
    /\ root \in VTabs
    /\ params \in [arguments : {"ok", "missing"},
                   types : {"ok", "unsupported"},
                   files : {"match", "no_match", "bad_pattern"}]
    /\ out = <<>>
    /\ call = <<>>
    /\ rows = <<>>
    /\ pending = <<>>
    /\ popped = {}
    /\ queue = <<>>
    /\ current = <<>>
    /\ chunks = <<>>

Callback(h, r) ==
    /\ out' = Put(out, h, r.handle)
    /\ call' = Put(call, h, r.result)
    /\ UNCHANGED <<root, params, rows, pending, popped, queue, current, chunks>>

HostBind(bits) ==
    /\ pending = <<>>
    /\ BindData \notin DOMAIN call
    /\ Callback(BindData, IF root = "legacy"
                          THEN legacy_bind(Handle(bits), params)
                          ELSE vtab_bind(Handle(bits), params))

HostInit(bits) ==
    /\ pending = <<>>
    /\ Get(call, BindData, "none") = "ok"
    /\ InitData \notin DOMAIN call
    /\ Callback(InitData, IF root = "legacy"
                          THEN legacy_init(Handle(bits), params)
                          ELSE vtab_init(Handle(bits), params))

HostLocalInit(w, bits) ==
    /\ pending = <<>>
    /\ root # "legacy"
    /\ Get(call, InitData, "none") = "ok"
    /\ LocalInitData(w) \notin DOMAIN call
    /\ Callback(LocalInitData(w), vtab_local_init(Handle(bits), params))

\* the handles func dereferences
FuncHandles(w) ==
    IF root = "legacy" THEN {BindData, InitData}
    ELSE {BindData, InitData, LocalInitData(w)}

Access(op, h) ==
    [op |-> op, handle |-> h, set |-> out[h].set, dropped |-> Handle_free(out[h])]

RECURSIVE Accesses(_, _)
Accesses(op, hs) ==
    IF hs = {} THEN <<>>
    ELSE LET h == CHOOSE x \in hs : TRUE
         IN <<Access(op, h)>> \o Accesses(op, hs \ {h})

\* func of a worker: the host calls it once init and, where there is one,
\* local_init of the worker returned Ok
HostFunc(w) ==
    /\ pending = <<>>
    /\ Get(call, InitData, "none") = "ok"
    /\ root # "legacy" => Get(call, LocalInitData(w), "none") = "ok"
    /\ root = "legacy" => w = 1
    /\ Cardinality({k \in DOMAIN rows : rows[k].op = "deref"}) <
           MaxCalls * Cardinality(FuncHandles(w))
    /\ rows' = rows \o Accesses("deref", FuncHandles(w))
    /\ UNCHANGED <<root, params, out, call, pending, popped, queue, current, chunks>>

\* the query ends, after an error or not
HostClose ==
    /\ pending = <<>>
    /\ BindData \in DOMAIN call
    /\ pending' = <<"closed">>
    /\ UNCHANGED <<root, params, out, call, rows, popped, queue, current, chunks>>

\* the host's destroy callback of the data of a callback: Handle::free
HostFree(h) ==
    /\ pending = <<"closed">>
    /\ h \in DOMAIN out
    /\ h \notin popped
    /\ rows' = Append(rows, Access("free", h))
    /\ popped' = popped \cup {h}
    /\ UNCHANGED <<root, params, out, call, pending, queue, current, chunks>>

NextHandle ==
    \/ \E bits \in Malloc : HostBind(bits)
    \/ \E bits \in Malloc : HostInit(bits)
    \/ \E w \in Workers : \E bits \in Malloc : HostLocalInit(w, bits)
    \/ \E w \in Workers : HostFunc(w)
    \/ HostClose
    \/ \E h \in {BindData, InitData} \cup {LocalInitData(w) : w \in Workers} :
           HostFree(h)

SpecHandle == InitHandle /\ [][NextHandle]_vars

\* C30: a handle whose callback returned an error was set to null by init,
\* a handle whose callback returned Ok holds the one box assign made, no
\* handle is dereferenced or freed while it holds a pointer no method
\* stored, and free drops the box of a callback that returned Ok and
\* nothing else
C30_HandleNullOrBoxed ==
    /\ \A h \in DOMAIN call :
          /\ call[h] = "err" => out[h].set = "init" /\ out[h].inner = "zero"
          /\ call[h] = "ok" => out[h].inner = "box" /\ out[h].boxes = 1
    /\ \A k \in DOMAIN rows :
          /\ rows[k].set # "never"
          /\ rows[k].op = "free" =>
                 rows[k].dropped =
                     IF call[rows[k].handle] = "ok" THEN "box" ELSE "nothing"

=============================================================================
